---- MODULE Spec2Model ----
(***************************************************************************)
(* Verification model of the two-way fixed-effects (TWFE) estimators of    *)
(* the vbm-replication scripts (kwdwrd/2, kwdwrd/3, kwdwrd/4).             *)
(*                                                                         *)
(* Numbers are exact rationals <<n, d>> (d > 0, lowest terms); the pair    *)
(* <<0, 0>> is the missing value (NaN), and it propagates through the      *)
(* arithmetic the way NaN does.  A standard error is carried as its        *)
(* square (field se2): the square root is one-to-one on the non-negative   *)
(* rationals, so two standard errors are equal iff their squares are.      *)
(***************************************************************************)
EXTENDS Integers, Sequences, FiniteSets, TLC

\* ------------------------------------------------------------------ bounds
MaxCounty == 2
MaxPeriod == 2
MaxOffice == 2
MaxRows == 4
MaxCalls == 2
\* Largest return code of a child process (the smallest is -1, a child
\* ended by a signal).
MaxReturnCode == 2
\* Largest offset of the original data's state-year ids.
MaxBase == 2

\* ------------------------------------------------------- rational numbers
RECURSIVE GCD(_, _)
GCD(a, b) == IF b = 0 THEN a ELSE GCD(b, a % b)

Abs(x) == IF x < 0 THEN -x ELSE x

\* TLC evaluates a function constructor anew at every application; concatenating
\* with the empty sequence turns it into a stored tuple, evaluated once.
Eager(seq) == seq \o <<>>

NA == <<0, 0>>

IsNA(v) == v[2] = 0

Rat(n, d) ==
    IF d = 0 THEN NA
    ELSE LET s == IF d < 0 THEN -1 ELSE 1
             g == GCD(Abs(n), Abs(d))
         IN  <<(s * n) \div g, (s * d) \div g>>

RInt(i) == <<i, 1>>

RZero == <<0, 1>>

\* The arithmetic cancels common factors before it multiplies, which keeps
\* the intermediate integers small; the values are the same.
RAddOver(a, b, g) == Rat(a[1] * (b[2] \div g) + b[1] * (a[2] \div g), (a[2] \div g) * b[2])

RAdd(a, b) == IF a[2] = 0 \/ b[2] = 0 THEN NA ELSE RAddOver(a, b, GCD(a[2], b[2]))

RSub(a, b) == RAdd(a, <<-b[1], b[2]>>)

RMulOver(a, b, g, h) == Rat((a[1] \div g) * (b[1] \div h), (a[2] \div h) * (b[2] \div g))

RMul(a, b) ==
    IF a[2] = 0 \/ b[2] = 0 THEN NA
    ELSE RMulOver(a, b, GCD(Abs(a[1]), b[2]), GCD(Abs(b[1]), a[2]))

RDiv(a, b) ==
    IF b[2] = 0 \/ b[1] = 0 THEN NA
    ELSE RMul(a, IF b[1] < 0 THEN <<-b[2], -b[1]>> ELSE <<b[2], b[1]>>)

RECURSIVE RSum(_)
RSum(s) == IF s = <<>> THEN RZero ELSE RAdd(Head(s), RSum(Tail(s)))

RDot(a, b) == RSum(Eager([i \in 1..Len(a) |-> RMul(a[i], b[i])]))

\* ------------------------------------------------------------ data frames
\* A frame is a list of column names and a list of rows; a row is a list of
\* values in the order of the column names.  Columns are read by name.
RECURSIVE IndexOf(_, _, _)
IndexOf(names, name, i) ==
    IF i > Len(names) THEN 0
    ELSE IF names[i] = name THEN i ELSE IndexOf(names, name, i + 1)

\* A slip that reads the columns of the sample by the place they have in the
\* literal [y_var, treat_var, county_var, state_year_var, 'year'].
ColumnByPlace(frame, name) ==
    LET k == IF name = "treat" THEN 2
             ELSE IF name = "county_id" THEN 3
             ELSE IF name = "state_year" THEN 4
             ELSE IF name = "year" THEN 5
             ELSE IF name \in {"dem_share", "share_votes_dem"} THEN 1
             ELSE IndexOf(frame.cols, name, 1)
    IN  Eager([i \in 1..Len(frame.rows) |-> frame.rows[i][k]])

Column(frame, name) ==
    LET k == IndexOf(frame.cols, name, 1)
    IN  Eager([i \in 1..Len(frame.rows) |-> frame.rows[i][k]])

\* df[cols_needed]
SelectCols(frame, names) ==
    [cols |-> names,
     rows |-> Eager([i \in 1..Len(frame.rows) |->
                 Eager([j \in 1..Len(names) |->
                    frame.rows[i][IndexOf(frame.cols, names[j], 1)]])])]

\* .dropna(): keep the rows in which no selected column is missing
RowComplete(row) == \A j \in 1..Len(row) : ~IsNA(row[j])

DropNA(frame) ==
    [cols |-> frame.cols, rows |-> SelectSeq(frame.rows, RowComplete)]

\* groupby(key)[col].transform('mean')
GroupMean(keys, vals) ==
    Eager([i \in 1..Len(vals) |->
        LET members == {j \in 1..Len(vals) : keys[j] = keys[i]}
        IN  RDiv(RSum(Eager([j \in 1..Len(vals) |->
                         IF j \in members THEN vals[j] ELSE RZero])),
                 RInt(Cardinality(members)))])

SeqSub(a, b) == Eager([i \in 1..Len(a) |-> RSub(a[i], b[i])])

\* Series.unique(): the distinct values in order of first appearance
RECURSIVE Unique(_)
Unique(s) ==
    IF s = <<>> THEN <<>>
    ELSE LET front == Unique(SubSeq(s, 1, Len(s) - 1))
             last == s[Len(s)]
         IN  IF \E i \in 1..Len(front) : front[i] = last
             THEN front ELSE Append(front, last)

NUnique(s) == Cardinality({s[i] : i \in 1..Len(s)})

\* --------------------------------------------- per-county trend regression
\* Residuals of sm.OLS(v, X).fit() for X = add_constant(year_c) (degree 1) or
\* add_constant([year_c, year_c2]) (degree 2).  statsmodels solves by
\* pseudo-inverse, so the fitted values are the projection of v on the column
\* space of X whatever its rank: with one distinct year the space is the
\* constants, with two it is the straight lines.
Det3(m) ==
    RSub(RAdd(RAdd(RMul(m[1][1], RMul(m[2][2], m[3][3])),
                   RMul(m[1][2], RMul(m[2][3], m[3][1]))),
              RMul(m[1][3], RMul(m[2][1], m[3][2]))),
         RAdd(RAdd(RMul(m[1][3], RMul(m[2][2], m[3][1])),
                   RMul(m[1][2], RMul(m[2][1], m[3][3]))),
              RMul(m[1][1], RMul(m[2][3], m[3][2]))))

ReplaceCol(m, k, r) ==
    Eager([i \in 1..3 |-> Eager([j \in 1..3 |-> IF j = k THEN r[i] ELSE m[i][j]])])

MeanResid(v) ==
    LET m == RDiv(RSum(v), RInt(Len(v)))
    IN  Eager([i \in 1..Len(v) |-> RSub(v[i], m)])

\* Residuals about the least-squares line with slope b, given the sums of
\* the year and of the values.
LineResidWith(t, v, n, St, Sv, b) ==
    LET a == RDiv(RSub(Sv, RMul(b, St)), n)
    IN  Eager([i \in 1..Len(v) |-> RSub(v[i], RAdd(a, RMul(b, t[i])))])

LineResidSums(t, v, n, St, Sv, Stt, Stv) ==
    LineResidWith(t, v, n, St, Sv,
                  RDiv(RSub(RMul(n, Stv), RMul(St, Sv)), RSub(RMul(n, Stt), RMul(St, St))))

LineResid(t, v) ==
    LineResidSums(t, v, RInt(Len(v)), RSum(t), RSum(v), RDot(t, t), RDot(t, v))

\* Residuals about the least-squares parabola: the normal equations m c = r
\* solved by Cramer's rule.
ParabolaResidWith(t, t2, v, m, r, d) ==
    LET a == RDiv(Det3(ReplaceCol(m, 1, r)), d)
        b == RDiv(Det3(ReplaceCol(m, 2, r)), d)
        c == RDiv(Det3(ReplaceCol(m, 3, r)), d)
    IN  Eager([i \in 1..Len(v) |->
           RSub(v[i], RAdd(a, RAdd(RMul(b, t[i]), RMul(c, t2[i]))))])

ParabolaResidNormal(t, t2, v, m, r) == ParabolaResidWith(t, t2, v, m, r, Det3(m))

ParabolaResidCols(one, t, t2, v) ==
    ParabolaResidNormal(t, t2, v,
        <<<<RDot(one, one), RDot(one, t), RDot(one, t2)>>,
          <<RDot(t, one), RDot(t, t), RDot(t, t2)>>,
          <<RDot(t2, one), RDot(t2, t), RDot(t2, t2)>>>>,
        <<RDot(one, v), RDot(t, v), RDot(t2, v)>>)

ParabolaResid(t, v) ==
    ParabolaResidCols(Eager([i \in 1..Len(v) |-> RInt(1)]), t,
                      Eager([i \in 1..Len(v) |-> RMul(t[i], t[i])]), v)

OLSResid(t, v, degree) ==
    LET d == NUnique(t)
    IN  IF d = 1 THEN MeanResid(v)
        ELSE IF d = 2 \/ degree = 1 THEN LineResid(t, v)
        ELSE ParabolaResid(t, v)

\* Rows of one county, in row order: sample[sample[county_var] == county]
RowsOf(keys, key) == SelectSeq(Eager([i \in 1..Len(keys) |-> i]), LAMBDA i : keys[i] = key)

Pick(vals, idx) == Eager([k \in 1..Len(idx) |-> vals[idx[k]]])

\* Fewest rows a county needs to be residualized: len(county_data) < 2
\* (linear) and len(county_data) < 3 (quadratic) pass through.
MinRowsLinear == 2
MinRowsQuadratic == 3

TrendMinRows(trend_type) == IF trend_type = "linear" THEN MinRowsLinear ELSE MinRowsQuadratic

TrendDegree(trend_type) == IF trend_type = "linear" THEN 1 ELSE 2

\* A slip that puts zeros where a county with too few rows passes through.
CountyResidZeroShort(idx, year_c, vals, trend_type) ==
    IF Len(idx) < TrendMinRows(trend_type)
    THEN Eager([k \in 1..Len(idx) |-> RZero])
    ELSE OLSResid(Pick(year_c, idx), Pick(vals, idx), TrendDegree(trend_type))

\* The loop over sample[county_var].unique(): the residuals of each county
\* are appended to one list, county after county.
CountyResid(idx, year_c, vals, trend_type) ==
    IF Len(idx) < TrendMinRows(trend_type)
    THEN Pick(vals, idx)
    ELSE OLSResid(Pick(year_c, idx), Pick(vals, idx), TrendDegree(trend_type))

RECURSIVE ResidList(_, _, _, _, _)
ResidList(counties, keys, year_c, vals, trend_type) ==
    IF counties = <<>> THEN <<>>
    ELSE CountyResid(RowsOf(keys, Head(counties)), year_c, vals, trend_type)
         \o ResidList(Tail(counties), keys, year_c, vals, trend_type)

\* ------------------------------------------------ final clustered regression
\* sm.OLS(y_final, add_constant(x_final)).fit(cov_type='cluster', groups)
\* and the reading of the treatment slope (params.iloc[1], bse.iloc[1]).
\* Outcomes of the library on the inputs it cannot handle:
\*   no rows                       ValueError (reduction of a zero-size array)
\*   x_final a non-zero constant   add_constant adds nothing, iloc[1] IndexError
\*   one cluster, or rows <= 2     ZeroDivisionError in the small-sample
\*                                 correction G/(G-1) * (N-1)/(N-K)
\*   x_final all zero              pseudo-inverse: slope 0, variance 0
Raised(err) == [kind |-> "raise", error |-> err]

\* The square of one cluster's entry in the slope row of the sandwich.
ClusterScore(g, x, u, clusters, N, Sx, det) ==
    LET n == Len(x)
        s0 == RSum(Eager([i \in 1..n |-> IF clusters[i] = g THEN u[i] ELSE RZero]))
        s1 == RSum(Eager([i \in 1..n |->
                 IF clusters[i] = g THEN RMul(x[i], u[i]) ELSE RZero]))
        w == RDiv(RSub(RMul(N, s1), RMul(Sx, s0)), det)
    IN  RMul(w, w)

ClusteredOLSMeat(x, u, clusters, labels, N, Sx, det) ==
    RSum(Eager([k \in 1..Len(labels) |-> ClusterScore(labels[k], x, u, clusters, N, Sx, det)]))

ClusteredOLSResult(n, G, b, var) ==
    [kind |-> "ok", coef |-> b, se2 |-> var, pval |-> RDiv(RMul(b, b), var),
     n_obs |-> n, n_clusters |-> G]

\* Slope b and intercept a given: the residuals, the sandwich, the correction.
ClusteredOLSCov(y, x, clusters, N, Sx, det, a, b) ==
    ClusteredOLSResult(Len(y), NUnique(clusters), b,
        IF det = RZero THEN RZero
        ELSE RMul(RMul(RDiv(RInt(NUnique(clusters)), RInt(NUnique(clusters) - 1)),
                       RDiv(RInt(Len(y) - 1), RInt(Len(y) - 2))),
                  ClusteredOLSMeat(x, Eager([i \in 1..Len(y) |->
                                        RSub(y[i], RAdd(a, RMul(b, x[i])))]),
                                   clusters, Unique(clusters), N, Sx, det)))

ClusteredOLSLine(y, x, clusters, N, Sx, Sy, det, b) ==
    ClusteredOLSCov(y, x, clusters, N, Sx, det, RDiv(RSub(Sy, RMul(b, Sx)), N), b)

ClusteredOLSSums(y, x, clusters, N, Sx, Sy, Sxy, det) ==
    ClusteredOLSLine(y, x, clusters, N, Sx, Sy, det,
        IF det = RZero THEN RZero
        ELSE RDiv(RSub(RMul(N, Sxy), RMul(Sx, Sy)), det))

ClusteredOLSFit(y, x, clusters, N, Sx, Sy, Sxx, Sxy) ==
    ClusteredOLSSums(y, x, clusters, N, Sx, Sy, Sxy, RSub(RMul(N, Sxx), RMul(Sx, Sx)))

ClusteredOLS(y, x, clusters) ==
    IF Len(y) = 0 THEN Raised("ValueError")
    ELSE IF NUnique(x) = 1 /\ x[1] # RZero THEN Raised("IndexError")
    ELSE IF NUnique(clusters) < 2 \/ Len(y) <= 2 THEN Raised("ZeroDivisionError")
    ELSE ClusteredOLSFit(y, x, clusters, RInt(Len(y)), RSum(x), RSum(y),
                         RDot(x, x), RDot(x, y))

\* sample[name] = vals: a new column, or new values for an existing one
SetColumn(frame, name, vals) ==
    LET k == IndexOf(frame.cols, name, 1)
    IN  IF k = 0
        THEN [cols |-> Append(frame.cols, name),
              rows |-> Eager([i \in 1..Len(frame.rows) |-> Append(frame.rows[i], vals[i])])]
        ELSE [cols |-> frame.cols,
              rows |-> Eager([i \in 1..Len(frame.rows) |->
                          Eager([j \in 1..Len(frame.cols) |->
                             IF j = k THEN vals[i] ELSE frame.rows[i][j]])])]

\* ------------------------------------ kwdwrd/4 02_replicate.run_twfe_regression
\* A slip that takes out the mean of the whole column, not the county means.
EntityDemeanGrandMean(sample, var, county_var) ==
    SeqSub(Column(sample, var),
           GroupMean(Eager([i \in 1..Len(sample.rows) |-> 0]), Column(sample, var)))

\* Steps 1 and 2 of the function: demean by county, store the result in the
\* sample, demean the stored series by state-year.
EntityDemean(sample, var, county_var) ==
    SeqSub(Column(sample, var), GroupMean(Column(sample, county_var), Column(sample, var)))

\* A slip that groups the second demeaning by county again.
TimeDemeanWrongKey(sample, dm_col, state_year_var) ==
    SeqSub(Column(sample, dm_col),
           GroupMean(Column(sample, "county_id"), Column(sample, dm_col)))

\* A slip that takes the state-year means of the raw column, not of the
\* county-demeaned one.
TimeDemeanRawMean(sample, dm_col, state_year_var) ==
    LET raw == IF dm_col = "treat_dm" THEN "treat"
               ELSE IF IndexOf(sample.cols, "dem_share", 1) > 0 THEN "dem_share"
               ELSE "share_votes_dem"
    IN  SeqSub(Column(sample, dm_col),
               GroupMean(Column(sample, state_year_var), Column(sample, raw)))

TimeDemean(sample, dm_col, state_year_var) ==
    SeqSub(Column(sample, dm_col),
           GroupMean(Column(sample, state_year_var), Column(sample, dm_col)))

\* Step 3: year centring and the county loop; the list of residuals becomes a
\* Series on sample.index, that is, it is laid over the rows by position.
TrendAbsorb(sample, col, county_var, trend_type) ==
    LET year == Column(sample, "year")
        mean == RDiv(RSum(year), RInt(Len(year)))
        year_c == Eager([i \in 1..Len(year) |-> RSub(year[i], mean)])
        keys == Column(sample, county_var)
    IN  ResidList(Unique(keys), keys, year_c, Column(sample, col), trend_type)

\* The body of the function, step by step; each step stores its series in the
\* sample and hands the sample on.  The result carries the returned value
\* (ret) and the series computed on the way.
\* Final step: the clustered regression of y_final on x_final.
twfe_fit(sample, y_final, x_final, county_var, state_year_var, cluster_var) ==
    [ret |-> ClusteredOLS(y_final, x_final, Column(sample, cluster_var)),
     county |-> Column(sample, county_var),
     state_year |-> Column(sample, state_year_var),
     y_dm |-> Column(sample, "y_dm"), treat_dm |-> Column(sample, "treat_dm"),
     y_dm2 |-> Column(sample, "y_dm2"), treat_dm2 |-> Column(sample, "treat_dm2"),
     y_final |-> y_final, x_final |-> x_final]

\* Step 3: county-specific trends.
twfe_trend(sample, county_var, state_year_var, cluster_var, trend_type) ==
    twfe_fit(sample,
             IF trend_type = "none" THEN Column(sample, "y_dm2")
             ELSE TrendAbsorb(sample, "y_dm2", county_var, trend_type),
             IF trend_type = "none" THEN Column(sample, "treat_dm2")
             ELSE TrendAbsorb(sample, "treat_dm2", county_var, trend_type),
             county_var, state_year_var, cluster_var)

\* Step 2: demean by state-year.
twfe_time(sample, county_var, state_year_var, cluster_var, trend_type) ==
    twfe_trend(SetColumn(SetColumn(sample, "y_dm2", TimeDemean(sample, "y_dm", state_year_var)),
                         "treat_dm2", TimeDemean(sample, "treat_dm", state_year_var)),
               county_var, state_year_var, cluster_var, trend_type)

\* Step 1: demean by county.
twfe_entity(sample, y_var, treat_var, county_var, state_year_var, cluster_var, trend_type) ==
    twfe_time(SetColumn(SetColumn(sample, "y_dm", EntityDemean(sample, y_var, county_var)),
                        "treat_dm", EntityDemean(sample, treat_var, county_var)),
              county_var, state_year_var, cluster_var, trend_type)

\* cols_needed = list(set([...])): `order` is the iteration order of the set,
\* a listing of its members without repetition.
twfe_steps(df, y_var, treat_var, county_var, state_year_var, cluster_var, trend_type, order) ==
    twfe_entity(DropNA(SelectCols(df, order)), y_var, treat_var, county_var,
                state_year_var, cluster_var, trend_type)

\* A slip that demeans the outcome in the caller's frame instead of in the copy.
run_twfe_regression_inplace(df, y_var, treat_var, county_var, state_year_var, cluster_var, trend_type, order) ==
    [call |-> twfe_steps(df, y_var, treat_var, county_var, state_year_var,
                         cluster_var, trend_type, order),
     df |-> SetColumn(df, y_var, EntityDemean(df, y_var, county_var))]

\* The call as the caller sees it: the value returned and the caller's frame
\* afterwards.  Every assignment of the function goes to `sample`, which
\* df[cols_needed].dropna().copy() made a frame of its own, so df is as it was.
run_twfe_regression(df, y_var, treat_var, county_var, state_year_var, cluster_var, trend_type, order) ==
    [call |-> twfe_steps(df, y_var, treat_var, county_var, state_year_var,
                         cluster_var, trend_type, order),
     df |-> df]

\* ----------------------------------------- least squares on several columns
\* sm.OLS(y, X).fit() solves by the pseudo-inverse: of the coefficient vectors
\* that minimise the residual it takes the one of least norm.  X is held as
\* its sequence of columns.
VecScale(f, a) == Eager([i \in 1..Len(a) |-> RMul(f, a[i])])

AllZero(a) == \A i \in 1..Len(a) : a[i] = RZero

Unit(n, j) == Eager([i \in 1..n |-> IF i = j THEN RInt(1) ELSE RZero])

\* Remove from q (a column v with the coefficients c that produce it, v = X c)
\* its components along the orthogonal columns found so far.
RECURSIVE Reduce(_, _, _)
Reduce(q, basis, i) ==
    IF i > Len(basis) THEN q
    ELSE IF AllZero(basis[i].v) THEN Reduce(q, basis, i + 1)
    ELSE LET f == RDiv(RDot(q.v, basis[i].v), RDot(basis[i].v, basis[i].v))
         IN  Reduce([v |-> SeqSub(q.v, VecScale(f, basis[i].v)),
                     c |-> SeqSub(q.c, VecScale(f, basis[i].c))], basis, i + 1)

\* Orthogonalise the columns of X in order.  An entry with v = 0 marks a
\* column that depends on the earlier ones; its c is then a null vector of X.
RECURSIVE Orthogonalise(_, _, _)
Orthogonalise(X, j, basis) ==
    IF j > Len(X) THEN basis
    ELSE Orthogonalise(X, j + 1,
                       Append(basis, Reduce([v |-> X[j], c |-> Unit(Len(X), j)], basis, 1)))

\* A least-squares solution for y from the orthogonal columns: the sum of the
\* projections of y on them, written in the coefficients of X.
LeastSquares(live, k, y) ==
    Eager([j \in 1..k |->
        RSum(Eager([i \in 1..Len(live) |->
            RMul(RDiv(RDot(y, live[i].v), RDot(live[i].v, live[i].v)), live[i].c[j])]))])

\* An orthogonal basis of the null space of X, from the dependent columns.
NullBasis(null) ==
    Orthogonalise(Eager([i \in 1..Len(null) |-> null[i].c]), 1, <<>>)

\* b minus its component in the null space.
MinNorm(b, nullBasis) ==
    Reduce([v |-> b, c |-> <<>>],
           Eager([i \in 1..Len(nullBasis) |-> [v |-> nullBasis[i].v, c |-> <<>>]]), 1).v

\* pinv(X) y, with the columns of X already orthogonalised.
PinvSolveWith(live, nullBasis, k, y) == MinNorm(LeastSquares(live, k, y), nullBasis)

PinvSolveBasis(basis, k, y) ==
    PinvSolveWith(SelectSeq(basis, LAMBDA q : ~AllZero(q.v)),
                  NullBasis(SelectSeq(basis, LAMBDA q : AllZero(q.v))), k, y)

PinvSolve(X, y) == PinvSolveBasis(Orthogonalise(X, 1, <<>>), Len(X), y)

\* The cluster-robust variance of the first coefficient: p is the first row
\* of pinv(X), u the residuals.
ClusteredFitMeat(p, u, groups, labels) ==
    RSum(Eager([k \in 1..Len(labels) |->
        LET s == RSum(Eager([i \in 1..Len(u) |->
                    IF groups[i] = labels[k] THEN RMul(p[i], u[i]) ELSE RZero]))
        IN  RMul(s, s)]))

ClusteredFitCov(y, X, groups, b, p) ==
    [kind |-> "ok", coef |-> b[1],
     se2 |-> RMul(RMul(RDiv(RInt(NUnique(groups)), RInt(NUnique(groups) - 1)),
                       RDiv(RInt(Len(y) - 1), RInt(Len(y) - Len(X)))),
                  ClusteredFitMeat(p,
                      Eager([i \in 1..Len(y) |->
                          RSub(y[i], RSum(Eager([j \in 1..Len(X) |-> RMul(b[j], X[j][i])])))]),
                      groups, Unique(groups)))]

ClusteredFitWith(y, X, groups, live, nullBasis) ==
    ClusteredFitCov(y, X, groups, PinvSolveWith(live, nullBasis, Len(X), y),
        Eager([i \in 1..Len(y) |->
            PinvSolveWith(live, nullBasis, Len(X), Unit(Len(y), i))[1]]))

ClusteredFitBasis(y, X, groups, basis) ==
    ClusteredFitWith(y, X, groups, SelectSeq(basis, LAMBDA q : ~AllZero(q.v)),
                     NullBasis(SelectSeq(basis, LAMBDA q : AllZero(q.v))))

\* sm.OLS(y, X).fit(cov_type='cluster', cov_kwds={'groups': groups}), no
\* constant added: the coefficient of the first column and its cluster-robust
\* variance (a negative variance stands for the NaN its square root gives).
\* The small-sample correction G/(G-1) * (N-1)/(N-K) divides by zero with one
\* cluster, or with as many rows as columns.
ClusteredFit(y, X, groups) ==
    IF NUnique(groups) < 2 \/ Len(y) = Len(X) THEN Raised("ZeroDivisionError")
    ELSE ClusteredFitBasis(y, X, groups, Orthogonalise(X, 1, <<>>))

\* ------------------------------------------------ kwdwrd/2 02_replicate.py
\* What the call returns when it has nothing to estimate.
None == [kind |-> "none"]

\* The sample_filter argument: None, or a boolean Series over the rows of df.
NoFilter == [given |-> FALSE]

Mask(m) == [given |-> TRUE, mask |-> m]

\* df[sample_filter].copy() if a filter is given, df.copy() otherwise
ApplyFilter(frame, sample_filter) ==
    IF ~sample_filter.given THEN frame
    ELSE [cols |-> frame.cols,
          rows |-> Pick(frame.rows,
                        SelectSeq(Eager([i \in 1..Len(frame.rows) |-> i]),
                                  LAMBDA i : sample_filter.mask[i]))]

\* The manual path did not run in this call.
NotRun == [kind |-> "not_run"]

\* var - groupby(key)[var].transform('mean')
Demean(keys, vals) == SeqSub(vals, GroupMean(keys, vals))

\* The within transformation of one column: county means out, then the
\* state-year means of the county-demeaned series out.
Within(sample, var) ==
    Demean(Column(sample, "state_year_id"),
           Demean(Column(sample, "county_id"), Column(sample, var)))

manual_twfe_result(sample, results) ==
    IF results.kind = "raise" THEN results
    ELSE [kind |-> "ok", by |-> "manual",
          coef |-> results.coef, se2 |-> results.se2,
          n_obs |-> Len(sample.rows),
          n_counties |-> NUnique(Column(sample, "county_id")),
          n_elections |-> NUnique(Column(sample, "state_year_id"))]

manual_twfe_sample(sample, y_var, x_var, trend_type) ==
    IF Len(sample.rows) = 0 THEN None
    ELSE manual_twfe_result(sample,
            ClusteredFit(Within(sample, y_var),
                         <<Within(sample, x_var)>>
                         \o (IF trend_type # "none" THEN <<Within(sample, "year")>> ELSE <<>>)
                         \o (IF trend_type = "quadratic"
                             THEN <<Within(sample, "year2")>> ELSE <<>>),
                         Column(sample, "county_id")))

\* Within transformation by hand of outcome, treatment and (with trends) of
\* year and year2; then OLS without a constant, clustered by county.  An
\* exception of the fit is not caught here: the value Raised(...) stands for
\* it leaving the function.
run_manual_twfe(df, y_var, x_var, sample_filter, trend_type) ==
    manual_twfe_sample(
        DropNA(SelectCols(ApplyFilter(df, sample_filter),
                          <<y_var, x_var, "county_id", "state_year_id", "year", "year2">>)),
        y_var, x_var, trend_type)

\* What the library estimator hands back when it does not raise.  Its
\* coefficient and standard error are the library's own and are not computed
\* here; the record names the routine and carries the counts the scripts take
\* from the sample.
LibraryResult(by, sample, entity_var, time_var) ==
    [kind |-> "ok", by |-> by, coef |-> "library", se |-> "library",
     n_obs |-> Len(sample.rows),
     n_counties |-> NUnique(Column(sample, entity_var)),
     n_elections |-> NUnique(Column(sample, time_var))]

\* A slip that sets up the panel index (sample['entity'] = ...) in the
\* caller's frame instead of in the copy.
panel_regression_shared(df, sample, fallback, backend) ==
    IF Len(sample.rows) = 0
    THEN [ret |-> None, backend |-> "not_called", manual |-> NotRun, df |-> df]
    ELSE IF backend = "raise"
    THEN [ret |-> fallback, backend |-> "raised", manual |-> fallback,
          df |-> SetColumn(df, "entity", Column(df, "county_id"))]
    ELSE [ret |-> LibraryResult("PanelOLS", sample, "county_id", "state_year_id"),
          backend |-> "returned", manual |-> NotRun,
          df |-> SetColumn(df, "entity", Column(df, "county_id"))]

\* The function from its sample on; fallback is what run_manual_twfe gives on
\* the same arguments.
panel_regression(df, sample, fallback, backend) ==
    IF Len(sample.rows) = 0
    THEN [ret |-> None, backend |-> "not_called", manual |-> NotRun, df |-> df]
    ELSE IF backend = "raise"
    THEN [ret |-> fallback, backend |-> "raised", manual |-> fallback, df |-> df]
    ELSE [ret |-> LibraryResult("PanelOLS", sample, "county_id", "state_year_id"),
          backend |-> "returned", manual |-> NotRun, df |-> df]

\* The call as the caller sees it: ret is the value returned (Raised(...) if
\* an exception left the call), backend says what PanelOLS did ("returned",
\* "raised", or "not_called" when the function returned before reaching it),
\* manual is what run_manual_twfe gave if it ran, df is the caller's frame
\* afterwards.  `backend` is the library's behaviour on this call: "ok" or
\* "raise".  The regressors built for PanelOLS (constant, treatment, year_dm
\* and the ctrend_* interactions) go to the library only.  The fallback is
\* called from inside the except clause, so what it raises leaves the call.
run_panel_regression(df, y_var, x_var, sample_filter, trend_type, backend) ==
    panel_regression(df,
        DropNA(SelectCols(ApplyFilter(df, sample_filter),
                          <<y_var, x_var, "county_id", "state_year_id", "year", "year2">>)),
        run_manual_twfe(df, y_var, x_var, sample_filter, trend_type),
        backend)

\* prepare_dem_voteshare_data: melt lists the rows office by office (all rows
\* of the first office, then all rows of the second), and the rows without a
\* vote share are dropped.
RECURSIVE StackOffices(_, _, _, _)
StackOffices(offices, rows, office, share) ==
    IF offices = <<>> THEN <<>>
    ELSE Pick(rows, SelectSeq(Eager([i \in 1..Len(rows) |-> i]),
                              LAMBDA i : office[i] = Head(offices) /\ ~IsNA(share[i])))
         \o StackOffices(Tail(offices), rows, office, share)

prepare_dem_voteshare_data(df) ==
    [cols |-> df.cols,
     rows |-> StackOffices(Unique(Column(df, "office")), df.rows,
                           Column(df, "office"), Column(df, "dem_share"))]

\* ---------------------------------------------- kwdwrd/2 05_run_extension.py
\* run_twfe_regression of the extension script: PanelOLS only; when the
\* library raises, the except clause returns None.
\* The dict it returns: the library's coefficient, standard error and
\* p-value, and the counts of the sample.
LibraryResultExt(sample, entity_var, time_var) ==
    [kind |-> "ok", by |-> "PanelOLS", coef |-> "library", se |-> "library",
     pval |-> "library",
     n_obs |-> Len(sample.rows),
     n_entities |-> NUnique(Column(sample, entity_var)),
     n_periods |-> NUnique(Column(sample, time_var))]

twfe_regression_ext(df, sample, entity_var, time_var, backend) ==
    IF Len(sample.rows) = 0
    THEN [ret |-> None, backend |-> "not_called", manual |-> NotRun, df |-> df]
    ELSE IF backend = "raise"
    THEN [ret |-> None, backend |-> "raised", manual |-> NotRun, df |-> df]
    ELSE [ret |-> LibraryResultExt(sample, entity_var, time_var),
          backend |-> "returned", manual |-> NotRun, df |-> df]

run_twfe_regression_ext(df, y_var, x_var, sample_filter, entity_var, time_var, cluster_var, backend) ==
    twfe_regression_ext(df,
        DropNA(SelectCols(ApplyFilter(df, sample_filter),
                          Unique(<<y_var, x_var, entity_var, time_var, cluster_var>>))),
        entity_var, time_var, backend)

\* pd.Categorical(values).codes: the rank of each value among the distinct
\* values, from 0
RLess(a, b) == a[1] * b[2] < b[1] * a[2]

CategoricalCodes(vals) ==
    Eager([i \in 1..Len(vals) |->
        RInt(Cardinality({vals[j] : j \in {m \in 1..Len(vals) : RLess(vals[m], vals[i])}}))])

\* ------------------------------------------------ kwdwrd/3 02_replicate.py
\* run_twfe_regression of kwdwrd/3: pyfixest if it is installed, PanelOLS
\* otherwise, with no try around either; what the library raises leaves the
\* call.
twfe_regression_v3(df, df_reg, entity_var, time_var, backend) ==
    IF Len(df_reg.rows) = 0
    THEN [ret |-> None, backend |-> "not_called", manual |-> NotRun, df |-> df]
    ELSE IF backend = "raise"
    THEN [ret |-> Raised("LibraryError"), backend |-> "raised", manual |-> NotRun,
          df |-> df]
    ELSE [ret |-> LibraryResult("library", df_reg, entity_var, time_var),
          backend |-> "returned", manual |-> NotRun, df |-> df]

run_twfe_regression_v3(df, outcome_var, treatment_var, entity_var, time_var, backend) ==
    twfe_regression_v3(df,
        DropNA(SelectCols(df, <<outcome_var, treatment_var, entity_var, time_var>>)),
        entity_var, time_var, backend)

\* df[df[col].notna()].copy()
NotNaRows(frame, col) ==
    LET vals == Column(frame, col)
    IN  [cols |-> frame.cols,
         rows |-> Pick(frame.rows,
                       SelectSeq(Eager([i \in 1..Len(frame.rows) |-> i]),
                                 LAMBDA i : ~IsNA(vals[i])))]

\* kwdwrd/4 replicate_table2, the reshape to office level: the rows with a
\* vote share, in the order of the frame; a DataFrame built from an empty
\* list has no columns.
NonEmptyFrame(kept) ==
    IF Len(kept.rows) = 0 THEN [cols |-> <<>>, rows |-> <<>>] ELSE kept

vote_share_long(df) == NonEmptyFrame(NotNaRows(df, "dem_share"))

\* ------------------------------------------ kwdwrd/3 05_extension_analysis.py
\* Fewest complete rows the extension estimator works on: len(df_reg) < 10.
MinRowsExtension == 10

\* A number that the library computed: present, its value not modelled.
LibraryValue == <<"library", 1>>

\* The record returned when nothing could be estimated.
NaNRecord(n, note) ==
    [kind |-> "ok", coef |-> NA, se2 |-> NA, t2 |-> NA, p |-> NA, n |-> n, r2 |-> NA,
     note |-> note]

\* str(e) of the exceptions the statsmodels fit raises.
ErrorText(err) ==
    IF err = "ZeroDivisionError" THEN "float division by zero" ELSE err

\* Messages an exception of the library may carry; str(e) of an exception
\* raised without arguments is the empty string.
ExceptionTexts == {"", "Singular matrix"}

\* x - x.mean() by entity, then by time, then the mean of the raw column
\* added back.
DemeanAddBack(df_reg, var, entity_var, time_var) ==
    LET dm == Demean(Column(df_reg, time_var),
                     Demean(Column(df_reg, entity_var), Column(df_reg, var)))
        mean == RDiv(RSum(Column(df_reg, var)), RInt(Len(df_reg.rows)))
    IN  Eager([i \in 1..Len(dm) |-> RAdd(dm[i], mean)])

\* OLS(y_dm, add_constant(x_dm)).fit(cov_type='cluster'): add_constant leaves
\* X alone when x_dm is a non-zero constant, and params['x_dm'] is read by
\* name.
extension_manual_fit(y_dm, x_dm, clusters) ==
    IF NUnique(x_dm) = 1 /\ x_dm[1] # RZero
    THEN ClusteredFit(y_dm, <<x_dm>>, clusters)
    ELSE ClusteredOLS(y_dm, x_dm, clusters)

extension_manual_record(n, fit) ==
    IF fit.kind = "raise" THEN NaNRecord(n, ErrorText(fit.error))
    ELSE [kind |-> "ok", coef |-> fit.coef, se2 |-> fit.se2,
          t2 |-> RDiv(RMul(fit.coef, fit.coef), fit.se2),
          p |-> RDiv(RMul(fit.coef, fit.coef), fit.se2),
          n |-> n, r2 |-> LibraryValue, note |-> "Manual demeaning"]

extension_manual(df_reg, fit) ==
    [ret |-> extension_manual_record(Len(df_reg.rows), fit), backend |-> "not_called",
     manual |-> fit, n |-> Len(df_reg.rows)]

extension_pyfixest(df_reg, backend, text) ==
    [ret |-> IF backend = "raise" THEN NaNRecord(Len(df_reg.rows), text)
             ELSE [kind |-> "ok", coef |-> LibraryValue, se2 |-> LibraryValue,
                   t2 |-> LibraryValue, p |-> LibraryValue, n |-> Len(df_reg.rows),
                   r2 |-> LibraryValue, note |-> ""],
     backend |-> IF backend = "raise" THEN "raised" ELSE "returned",
     manual |-> NotRun, n |-> Len(df_reg.rows)]

twfe_regression_extension(df_reg, outcome_var, treatment_var, entity_var, time_var, cluster_var, has_pyfixest, backend, text) ==
    IF Len(df_reg.rows) < MinRowsExtension
    THEN [ret |-> NaNRecord(0, "Insufficient observations"), backend |-> "not_called",
          manual |-> NotRun, n |-> Len(df_reg.rows)]
    ELSE IF has_pyfixest THEN extension_pyfixest(df_reg, backend, text)
    ELSE extension_manual(df_reg,
            extension_manual_fit(DemeanAddBack(df_reg, outcome_var, entity_var, time_var),
                                 DemeanAddBack(df_reg, treatment_var, entity_var, time_var),
                                 Column(df_reg, cluster_var)))

\* run_twfe_regression of the extension analysis.  has_pyfixest is the
\* import-time flag HAS_PYFIXEST; backend and text are what pf.feols does on
\* this call ("ok" or "raise", and the message of the exception).
run_twfe_regression_extension(df, outcome_var, treatment_var, entity_var, time_var, cluster_var, has_pyfixest, backend, text) ==
    twfe_regression_extension(
        DropNA(SelectCols(df, Unique(<<outcome_var, treatment_var, entity_var, time_var,
                                       cluster_var>>))),
        outcome_var, treatment_var, entity_var, time_var, cluster_var,
        has_pyfixest, backend, text)

\* ------------------------------------------ kwdwrd/4 05_extension_analysis.py
\* run_twfe_regression of the extension script, called without additional
\* controls: the steps of the replication script's function, behind a guard
\* on the size of the sample, and with a confidence interval in the result.
\* Fewest complete rows it works on: len(sample) < 10 returns None.
MinSampleRows == 10

\* coef -/+ 1.96 * se, held as the coefficient and squared standard error it
\* is computed from.
WithInterval(r) ==
    IF r.kind # "ok" THEN r
    ELSE [kind |-> "ok", coef |-> r.coef, se2 |-> r.se2, pval |-> r.pval, n_obs |-> r.n_obs,
          n_clusters |-> r.n_clusters,
          ci_low |-> <<"coef - 1.96 se", r.coef, r.se2>>,
          ci_high |-> <<"coef + 1.96 se", r.coef, r.se2>>]

twfe_extension_sample(sample, y_var, treat_var, county_var, state_year_var, cluster_var, trend_type) ==
    IF Len(sample.rows) < MinSampleRows THEN None
    ELSE WithInterval(twfe_entity(sample, y_var, treat_var, county_var, state_year_var,
                                  cluster_var, trend_type).ret)

run_twfe_regression_v4ext(df, y_var, treat_var, county_var, state_year_var, cluster_var, trend_type, order) ==
    [ret |-> twfe_extension_sample(DropNA(SelectCols(df, order)), y_var, treat_var,
                                   county_var, state_year_var, cluster_var, trend_type),
     df |-> df]

\* ------------------------------------------------------------ input panels
\* The caller's frame holds one row per county, election period and office
\* (the office-level rows of the stacked vote-share panel share their county
\* and state-year).  There is one state, so the state-year identifier and the
\* year are both the period.  treat follows a staggered adoption: county c
\* adopts in period c + 1 and the last county never does.
Counties == 1..MaxCounty
Periods == 1..MaxPeriod
Offices == 1..MaxOffice
Slots == Counties \X Periods \X Offices

DfCols ==
    <<"county_id", "state_year", "year", "year2", "treat", "dem_share", "share_votes_dem",
      "state_year_id", "office">>

AdoptPeriod(c) == IF c = MaxCounty THEN MaxPeriod + 1 ELSE c + 1

\* The position of a row in a file sorted by county first ("county") or by
\* period first ("period").
Rank(slot, major) ==
    IF major = "county"
    THEN ((slot[1] - 1) * MaxPeriod + (slot[2] - 1)) * MaxOffice + slot[3]
    ELSE ((slot[2] - 1) * MaxOffice + (slot[3] - 1)) * MaxCounty + slot[1]

RECURSIVE SortSlots(_, _)
SortSlots(slots, major) ==
    IF slots = {} THEN <<>>
    ELSE LET first == CHOOSE c \in slots : \A d \in slots : Rank(c, major) <= Rank(d, major)
         IN  <<first>> \o SortSlots(slots \ {first}, major)

\* share_votes_dem is a value of the county and period, not of an office: it
\* stands on the first office's row of the cell and is missing on the others.
TurnoutOf(slot) ==
    IF slot[3] # 1 THEN NA
    ELSE RInt((slot[1] * slot[2] + 1) % 3)

MakeRow(slot, share) ==
    <<RInt(slot[1]), RInt(slot[2]), RInt(slot[2]), RInt(slot[2] * slot[2]),
      RInt(IF slot[2] >= AdoptPeriod(slot[1]) THEN 1 ELSE 0), share, TurnoutOf(slot),
      RInt(slot[2]), RInt(slot[3])>>

MakePanel(present, share, major) ==
    LET slots == SortSlots(present, major)
    IN  [cols |-> DfCols,
         rows |-> Eager([i \in 1..Len(slots) |-> MakeRow(slots[i], share[slots[i]])])]

\* dem_share is 0 or 1 on every row, or missing on every row.
ShareColumns(present) ==
    [present -> {RInt(0), RInt(1)}] \cup {[s \in present |-> NA]}

\* Two fixed dem_share columns, for the runs that make several calls.
SharePatterns(present) ==
    {[s \in present |-> RInt((s[1] + s[3] + k) % 2)] : k \in 0..1}

PresentSets == {p \in SUBSET Slots : Cardinality(p) <= MaxRows}

\* ------------------------------------------------------------------ state
\* df       the caller's frame
\* results  what each specification's estimator call returned (with the
\*          series the call computed on the way)
\* calls    the number of estimator calls made
\* loaded   the frame as it was loaded, before any call
\* script   the caller: an external orchestrator, or one of the scripts'
\*          table-building functions
\* pc       the position of a table-building function in its list of steps
\* status   "running", "done" (the function returned) or "aborted" (an
\*          exception ended it)
\* table    the entries the function has put in its results dictionary
\* runner   the master script that runs the analysis scripts one after the
\*          other as child processes: its position, the children it has
\*          started, their return codes, what it has printed, its exit status
VARIABLES df, results, calls, loaded, script, pc, status, table, runner

vars == <<df, results, calls, loaded, script, pc, status, table, runner>>

\* No master script is running: an estimator or a table function is called
\* directly.
NoRunner == [name |-> "none"]

Outcomes == {"dem_share", "share_votes_dem"}
Trends == {"none", "linear", "quadratic"}
Specs == Outcomes \X Trends

Pending == [kind |-> "pending"]

Done(s) == results[s] # Pending

\* Iteration orders of set([y_var, treat_var, county_var, state_year_var,
\* cluster_var, 'year']) that the runs consider: the order of the literal and
\* its reverse.
ColOrders(y_var) ==
    {<<y_var, "treat", "county_id", "state_year", "year">>,
     <<"year", "state_year", "county_id", "treat", y_var>>}

\* An external orchestrator makes up to MaxCalls estimator calls on one frame,
\* in any order, repeating a specification if it likes.
Init ==
    /\ \E present \in PresentSets :
       \E share \in SharePatterns(present) :
          df = MakePanel(present, share, "county")
    /\ loaded = df
    /\ results = [s \in Specs |-> Pending]
    /\ calls = 0
    /\ script = "orchestrator"
    /\ pc = 0
    /\ status = "running"
    /\ table = [s \in Specs |-> Pending]
    /\ runner = NoRunner

\* The caller's side of one estimator call: r is what the call gave.
Receive(s, r) ==
    /\ df' = r.df
    /\ results' = [results EXCEPT ![s] = r.call]

\* One estimator call, for one specification.
Call(s) ==
    /\ script = "orchestrator"
    /\ calls < MaxCalls
    /\ \E order \in ColOrders(s[1]) :
          Receive(s, run_twfe_regression(df, s[1], "treat", "county_id", "state_year",
                                         "county_id", s[2], order))
    /\ calls' = calls + 1
    /\ UNCHANGED <<loaded, script, pc, status, table, runner>>

Next == \E s \in Specs : Call(s)

Spec == Init /\ [][Next]_vars

\* The estimator as a function of its input: one call on each frame of a
\* larger family, in either file order.
InitEstimator ==
    /\ \E present \in PresentSets :
       \E share \in ShareColumns(present) :
       \E major \in {"county", "period"} :
          df = MakePanel(present, share, major)
    /\ loaded = df
    /\ results = [s \in Specs |-> Pending]
    /\ calls = 0
    /\ script = "orchestrator"
    /\ pc = 0
    /\ status = "running"
    /\ table = [s \in Specs |-> Pending]
    /\ runner = NoRunner

Estimate(s) == calls = 0 /\ Call(s)

NextEstimator == \E s \in Specs : Estimate(s)

SpecEstimator == InitEstimator /\ [][NextEstimator]_vars

\* ------------------------------------------------- planted-effect panels
\* Balanced panels of three counties by four periods, one row per cell, whose
\* outcome is a county effect plus a period effect plus 0.05 times the
\* treatment.  County c is treated from period adopt[c] on (5: never).
PlantedCounties == 1..3
PlantedPeriods == 1..4

PlantedEffect == <<1, 20>>

PlantedTreat(adopt, c, t) == IF t >= adopt[c] THEN 1 ELSE 0

\* The treatment varies within some county and within some period.
VariesBothWays(adopt) ==
    /\ \E c \in PlantedCounties : \E t, u \in PlantedPeriods :
          PlantedTreat(adopt, c, t) # PlantedTreat(adopt, c, u)
    /\ \E t \in PlantedPeriods : \E c, d \in PlantedCounties :
          PlantedTreat(adopt, c, t) # PlantedTreat(adopt, d, t)

PlantedAdoptions == {adopt \in [PlantedCounties -> 1..5] : VariesBothWays(adopt)}

\* The first county's effect is the level the others are measured from.
PlantedCountyEffects == {alpha \in [PlantedCounties -> 0..1] : alpha[1] = 0}

PlantedPeriodEffects == {[t \in PlantedPeriods |-> t], [t \in PlantedPeriods |-> (t * t) % 3]}

PlantedRow(c, t, adopt, alpha, gamma) ==
    <<RInt(c), RInt(t), RInt(t), RInt(t * t), RInt(PlantedTreat(adopt, c, t)),
      RAdd(RInt(alpha[c] + gamma[t]), RMul(PlantedEffect, RInt(PlantedTreat(adopt, c, t)))),
      NA, RInt(t), RInt(1)>>

PlantedPanel(adopt, alpha, gamma) ==
    [cols |-> DfCols,
     rows |-> Eager([i \in 1..(Cardinality(PlantedCounties) * Cardinality(PlantedPeriods)) |->
                 PlantedRow(((i - 1) \div Cardinality(PlantedPeriods)) + 1,
                            ((i - 1) % Cardinality(PlantedPeriods)) + 1, adopt, alpha, gamma)])]

InitPlanted ==
    /\ \E adopt \in PlantedAdoptions :
       \E alpha \in PlantedCountyEffects :
       \E gamma \in PlantedPeriodEffects :
          df = PlantedPanel(adopt, alpha, gamma)
    /\ loaded = df
    /\ results = [s \in Specs |-> Pending]
    /\ calls = 0
    /\ script = "orchestrator"
    /\ pc = 0
    /\ status = "running"
    /\ table = [s \in Specs |-> Pending]
    /\ runner = NoRunner

\* One call on the outcome of the planted panel, under any trend type.
Recover(s) == calls = 0 /\ s[1] = "dem_share" /\ Call(s)

NextPlanted == \E s \in Specs : Recover(s)

SpecPlanted == InitPlanted /\ [][NextPlanted]_vars

\* ------------------------------------------------- panels with missing values
\* The full panel of one row per county and period, in which each row lacks
\* at most one of outcome, treatment, county, state-year and year (a row
\* without a year has no squared year either).
MissingMarks == {"none", "dem_share", "treat", "county_id", "state_year", "year"}

BlankRow(row, mark) ==
    Eager([j \in 1..Len(row) |->
        IF DfCols[j] = mark \/ (mark = "year" /\ DfCols[j] = "year2") THEN NA ELSE row[j]])

BlankPanel(frame, marks) ==
    [cols |-> frame.cols,
     rows |-> Eager([i \in 1..Len(frame.rows) |-> BlankRow(frame.rows[i], marks[i])])]

InitMissing ==
    /\ \E share \in SharePatterns(Counties \X Periods \X {1}) :
       \E marks \in [1..(MaxCounty * MaxPeriod) -> MissingMarks] :
          df = BlankPanel(MakePanel(Counties \X Periods \X {1}, share, "county"), marks)
    /\ loaded = df
    /\ results = [s \in Specs |-> Pending]
    /\ calls = 0
    /\ script = "orchestrator"
    /\ pc = 0
    /\ status = "running"
    /\ table = [s \in Specs |-> Pending]
    /\ runner = NoRunner

\* One call on the outcome of the panel, under any trend type.
EstimateMissing(s) == calls = 0 /\ s[1] = "dem_share" /\ Call(s)

NextMissing == \E s \in Specs : EstimateMissing(s)

SpecMissing == InitMissing /\ [][NextMissing]_vars

\* ------------------------------------------------- extension panels
\* Panels of ten rows for the extension estimator, the fewest it works on:
\* two counties by five periods, or one county with two rows in each period;
\* up to MaxAbsent rows lack the outcome.  County 1 is treated from period 3.
MaxAbsent == 1

ExtensionPeriods == 5

ExtensionRows == 1..(2 * ExtensionPeriods)

ExtensionCounty(i, layout) ==
    IF layout = "two" THEN ((i - 1) \div ExtensionPeriods) + 1 ELSE 1

ExtensionPeriod(i) == ((i - 1) % ExtensionPeriods) + 1

ExtensionTreat(i, layout) ==
    IF ExtensionCounty(i, "two") = 1 /\ ExtensionPeriod(i) > 2 THEN 1 ELSE 0

ExtensionRow(i, layout, absent, k) ==
    <<RInt(ExtensionCounty(i, layout)), RInt(ExtensionPeriod(i)), RInt(ExtensionPeriod(i)),
      RInt(ExtensionPeriod(i) * ExtensionPeriod(i)), RInt(ExtensionTreat(i, layout)),
      IF i \in absent THEN NA ELSE RInt((i * i + ExtensionPeriod(i) + k) % 3),
      NA, RInt(ExtensionPeriod(i)), RInt(1)>>

ExtensionPanel(layout, absent, k) ==
    [cols |-> DfCols,
     rows |-> Eager([i \in ExtensionRows |-> ExtensionRow(i, layout, absent, k)])]

InitExtension ==
    /\ \E layout \in {"two", "one"} :
       \E absent \in {a \in SUBSET ExtensionRows : Cardinality(a) <= MaxAbsent} :
       \E k \in 0..2 :
          df = ExtensionPanel(layout, absent, k)
    /\ loaded = df
    /\ results = [s \in Specs |-> Pending]
    /\ calls = 0
    /\ script = "orchestrator"
    /\ pc = 0
    /\ status = "running"
    /\ table = [s \in Specs |-> Pending]
    /\ runner = NoRunner

\* One call of the extension estimator on the outcome of the panel.
EstimateExtension ==
    /\ calls = 0
    /\ \E has_pyfixest \in BOOLEAN :
       \E backend \in {"ok", "raise"} :
       \E text \in ExceptionTexts :
          results' = [results EXCEPT ![<<"dem_share", "none">>] =
                         run_twfe_regression_extension(df, "dem_share", "treat", "county_id",
                             "state_year_id", "county_id", has_pyfixest, backend, text)]
    /\ calls' = calls + 1
    /\ UNCHANGED <<df, loaded, script, pc, status, table, runner>>

NextExtension == EstimateExtension

SpecExtension == InitExtension /\ [][NextExtension]_vars

\* ------------------------------------------------- the two kwdwrd/4 estimators
\* The replication script's and the extension script's run_twfe_regression
\* called on one frame with the same arguments; the frames are ten-row
\* panels with ten or nine complete rows.
Twin(s) ==
    /\ calls = 0
    /\ s[1] = "dem_share"
    /\ \E order \in ColOrders(s[1]) :
          results' = [results EXCEPT ![s] =
              [replicate |-> run_twfe_regression(df, s[1], "treat", "county_id", "state_year",
                                                 "county_id", s[2], order).call.ret,
               extension |-> run_twfe_regression_v4ext(df, s[1], "treat", "county_id",
                                 "state_year", "county_id", s[2], order).ret]]
    /\ calls' = calls + 1
    /\ UNCHANGED <<df, loaded, script, pc, status, table, runner>>

NextTwin == \E s \in Specs : Twin(s)

InitTwin ==
    /\ \E layout \in {"two", "one"} :
       \E absent \in {a \in SUBSET (1..ExtensionPeriods) : Cardinality(a) <= MaxAbsent} :
       \E k \in 0..2 :
          df = ExtensionPanel(layout, absent, k)
    /\ loaded = df
    /\ results = [s \in Specs |-> Pending]
    /\ calls = 0
    /\ script = "orchestrator"
    /\ pc = 0
    /\ status = "running"
    /\ table = [s \in Specs |-> Pending]
    /\ runner = NoRunner

SpecTwin == InitTwin /\ [][NextTwin]_vars

\* ------------------------------------------------- table-building functions
\* The steps of a table-building function, in order: a "frame" step makes the
\* frame that the following calls are given, a "call" step is one pass of the
\* function over one specification (estimator call, entry in the results
\* dictionary, printed line).
FrameStep(what) == [op |-> "frame", what |-> what]

CallStep(y_var, trend) == [op |-> "call", spec |-> <<y_var, trend>>]

Scripts == {"v2_02", "v2_05", "v3_02", "v4_02"}

Program(name) ==
    IF name = "v2_02"
    THEN <<CallStep("share_votes_dem", "none"), CallStep("share_votes_dem", "linear"),
           CallStep("share_votes_dem", "quadratic"), FrameStep("df_long"),
           CallStep("dem_share", "none"), CallStep("dem_share", "linear"),
           CallStep("dem_share", "quadratic")>>
    ELSE IF name = "v2_05"
    THEN <<FrameStep("year_idx"), CallStep("dem_share", "none"),
           CallStep("share_votes_dem", "none")>>
    ELSE IF name = "v3_02"
    THEN <<FrameStep("df_turnout"), CallStep("share_votes_dem", "none"),
           FrameStep("df_stacked"), CallStep("dem_share", "none")>>
    ELSE <<FrameStep("sample_turnout"), CallStep("share_votes_dem", "none"),
           CallStep("share_votes_dem", "linear"), CallStep("share_votes_dem", "quadratic"),
           FrameStep("sample_voteshare"), CallStep("dem_share", "none"),
           CallStep("dem_share", "linear"), CallStep("dem_share", "quadratic")>>

\* The specifications a table-building function estimates.
ProgramSpecs(name) ==
    {Program(name)[i].spec : i \in {j \in 1..Len(Program(name)) : Program(name)[j].op = "call"}}

AtStep(name, op) ==
    /\ script = name
    /\ status = "running"
    /\ pc <= Len(Program(name))
    /\ Program(name)[pc].op = op

\* Where the function stands after a pass: ended by the exception, returned
\* after its last step, or on to the next step.
After(escaped) ==
    IF escaped THEN "aborted"
    ELSE IF pc = Len(Program(script)) THEN "done"
    ELSE "running"

CallRecord(r) == [ret |-> r.ret, backend |-> r.backend, manual |-> r.manual]

\* The replication scripts load the analysis file, whose vote shares are per
\* office; the extension script of kwdwrd/2 loads the extension panel, which
\* has one row per county and year.
PanelsOf(name) ==
    IF name = "v2_05" THEN {p \in PresentSets : \A slot \in p : slot[3] = 1}
    ELSE PresentSets

InitTables ==
    /\ script \in Scripts
    /\ \E present \in PanelsOf(script) :
       \E share \in SharePatterns(present) :
          df = MakePanel(present, share, "county")
    /\ loaded = df
    /\ results = [s \in Specs |-> Pending]
    /\ calls = 0
    /\ pc = 1
    /\ status = "running"
    /\ table = [s \in Specs |-> Pending]
    /\ runner = NoRunner

\* The statements between the loops that make the frame for the calls that
\* follow.
\*   v2_02  df_long = prepare_dem_voteshare_data(df)
\*   v2_05  df['year_idx'] = pd.Categorical(df['year']).codes, on the frame
\*          analyze_all_states was given
\*   v3_02  df_turnout = df[df['share_votes_dem'].notna()].copy(), and the melt
\*          with dropna(subset=['dem_share'])
\*   v4_02  sample_turnout = df[... & df['share_votes_dem'].notna()].copy(),
\*          and the office-level reshape
PrepareFrame ==
    /\ \E name \in Scripts : AtStep(name, "frame")
    /\ LET what == Program(script)[pc].what
       IN  df' = IF what = "df_long" THEN prepare_dem_voteshare_data(loaded)
                 ELSE IF what = "year_idx"
                 THEN SetColumn(df, "year_idx", CategoricalCodes(Column(df, "year")))
                 ELSE IF what \in {"df_turnout", "sample_turnout"}
                 THEN NotNaRows(loaded, "share_votes_dem")
                 ELSE IF what = "df_stacked" THEN prepare_dem_voteshare_data(loaded)
                 ELSE vote_share_long(loaded)
    /\ pc' = pc + 1
    /\ status' = After(FALSE)
    /\ UNCHANGED <<results, calls, loaded, script, table, runner>>

\* The caller's side of a pass: r is what the estimator call gave, entries
\* the results dictionary after the pass, escaped whether an exception ended
\* the function.
Store(s, r, entries, escaped) ==
    /\ df' = r.df
    /\ results' = [results EXCEPT ![s] = CallRecord(r)]
    /\ table' = entries
    /\ status' = After(escaped)
    /\ calls' = calls + 1
    /\ pc' = pc + 1
    /\ UNCHANGED <<loaded, script, runner>>

\* `if res:` guards the entry and the printed line.
StoreIfResult(s, r) ==
    Store(s, r, IF r.ret.kind = "ok" THEN [table EXCEPT ![s] = r.ret] ELSE table,
          r.ret.kind = "raise")

\* kwdwrd/2 replicate_table2, one pass of either loop.  The first loop passes
\* the CA/UT mask (the panel has one state, so the mask is true on every row),
\* the second passes no filter.
Table2Filter(y_var) ==
    IF y_var = "share_votes_dem"
    THEN Mask(Eager([i \in 1..Len(df.rows) |-> TRUE]))
    ELSE NoFilter

Table2Pass_v2 ==
    /\ AtStep("v2_02", "call")
    /\ \E backend \in {"ok", "raise"} :
          StoreIfResult(Program(script)[pc].spec,
              run_panel_regression(df, Program(script)[pc].spec[1], "treat",
                                   Table2Filter(Program(script)[pc].spec[1]),
                                   Program(script)[pc].spec[2], backend))

\* kwdwrd/2 analyze_all_states, one estimator call with its `if res:` block.
\* The county identifier of the frame serves as entity and cluster (the
\* extension panel's county_idx is the categorical code of county_id).
AllStatesPass_v2 ==
    /\ AtStep("v2_05", "call")
    /\ \E backend \in {"ok", "raise"} :
          StoreIfResult(Program(script)[pc].spec,
              run_twfe_regression_ext(df, Program(script)[pc].spec[1], "treat", NoFilter,
                                      "county_id", "year_idx", "county_id", backend))

\* kwdwrd/3 replicate_table2, the basic column of one outcome: the returned
\* value is stored, then r['coef'] is printed (a TypeError when r is None),
\* then the two trend columns are filled with NaN and the counts of r.
TrendNote(r) ==
    [kind |-> "ok", coef |-> NA, se |-> NA, n_obs |-> r.n_obs,
     n_counties |-> r.n_counties, n_elections |-> r.n_elections]

StoreBasic(s, r) ==
    Store(s, r,
          IF r.ret.kind = "raise" THEN table
          ELSE IF r.ret.kind = "none" THEN [table EXCEPT ![s] = r.ret]
          ELSE [table EXCEPT ![s] = r.ret,
                             ![<<s[1], "linear">>] = TrendNote(r.ret),
                             ![<<s[1], "quadratic">>] = TrendNote(r.ret)],
          r.ret.kind # "ok")

Table2Pass_v3 ==
    /\ AtStep("v3_02", "call")
    /\ \E backend \in {"ok", "raise"} :
          StoreBasic(Program(script)[pc].spec,
              run_twfe_regression_v3(df, Program(script)[pc].spec[1], "treat",
                                     "county_id", "state_year_id", backend))

\* kwdwrd/4 replicate_table2, one pass of either loop: the returned value is
\* stored and result['coef'] printed, with no guard and no try.
StoreUnguarded(s, r) ==
    Store(s, r, IF r.ret.kind = "raise" THEN table ELSE [table EXCEPT ![s] = r.ret],
          r.ret.kind = "raise")

Returning(r) ==
    [ret |-> r.call.ret, backend |-> "not_called", manual |-> NotRun, df |-> r.df]

Table2Pass_v4 ==
    /\ AtStep("v4_02", "call")
    /\ \E order \in ColOrders(Program(script)[pc].spec[1]) :
          StoreUnguarded(Program(script)[pc].spec,
              Returning(run_twfe_regression(df, Program(script)[pc].spec[1], "treat",
                                            "county_id", "state_year", "county_id",
                                            Program(script)[pc].spec[2], order)))

NextTables ==
    \/ PrepareFrame
    \/ Table2Pass_v2
    \/ AllStatesPass_v2
    \/ Table2Pass_v3
    \/ Table2Pass_v4

SpecTables == InitTables /\ [][NextTables]_vars

\* ------------------------------------------------------- the master scripts
\* kwdwrd/3 00_run_all.py and kwdwrd/4 run_all.py run the analysis scripts as
\* child processes with subprocess.run, which blocks until the child is over.
\* A run is cut at the points where the environment acts: the child process
\* starts, and the child process ends with a return code (and, where the
\* output is captured, with or without text on stdout and stderr).
\*
\* runner.at        "loop" before a script is run, "child" while the child
\*                  runs, "returned" when subprocess.run has given its
\*                  result, "summary" after the loop, "exited"
\* runner.i         index of the script to run next
\* runner.started   the scripts whose child process was started, in order
\* runner.finished  the return codes subprocess.run gave, in order
\* runner.printed   the lines written, each <<kind, script, code>>
\* runner.exit      <<>> while running, <<status>> once exited
ReturnCodes == -1..MaxReturnCode

ChildTexts == {"", "text"}

NoChild == [returncode |-> 0, stdout |-> "", stderr |-> ""]

SuccessLine == <<"ALL ANALYSES COMPLETED SUCCESSFULLY", "", 0>>

Scripts00 == <<"02_replicate.py", "03_collect_extension.py", "04_merge_extension.py", "05_extension_analysis.py">>

Runner00 ==
    [name |-> "00_run_all", at |-> "loop", i |-> 1, started |-> <<>>, finished |-> <<>>,
     child |-> NoChild, results |-> <<>>, all_success |-> TRUE,
     printed |-> <<<<"MASTER RUN SCRIPT", "", 0>>>>, exit |-> <<>>]

\* run_script up to subprocess.run: the header is printed, the child starts.
run_script_00_begin(r, script_name) ==
    [r EXCEPT !.printed = Append(@, <<"RUNNING", script_name, 0>>),
              !.started = Append(@, script_name),
              !.at = "child"]

\* run_script from the result of subprocess.run on: the lines it prints and
\* the value it returns.
run_script_00_lines(script_name, result) ==
    (IF result.stdout # "" THEN <<<<"stdout", script_name, 0>>>> ELSE <<>>)
    \o (IF result.stderr # "" THEN <<<<"STDERR:", script_name, 0>>>> ELSE <<>>)
    \o (IF result.returncode # 0 THEN <<<<"ERROR", script_name, result.returncode>>>>
        ELSE <<<<"Completed", script_name, 0>>>>)

run_script_00(script_name, result) ==
    [lines |-> run_script_00_lines(script_name, result), value |-> result.returncode = 0]

\* The body of main's loop after run_script has returned, and the step to
\* the next script: break leaves the loop.
main_00_loop_no_break(r, script_name, ran) ==
    [r EXCEPT !.printed = @ \o ran.lines
                            \o (IF ran.value THEN <<>> ELSE <<<<"Stopping", script_name, 0>>>>),
              !.results = Append(@, <<script_name, ran.value>>),
              !.all_success = @ /\ ran.value,
              !.i = @ + 1,
              !.at = IF r.i < Len(Scripts00) THEN "loop" ELSE "summary"]

\* A slip that leaves all_success as it is when a script fails.
main_00_loop_flag_kept(r, script_name, ran) ==
    [r EXCEPT !.printed = @ \o ran.lines
                            \o (IF ran.value THEN <<>> ELSE <<<<"Stopping", script_name, 0>>>>),
              !.results = Append(@, <<script_name, ran.value>>),
              !.i = IF ran.value THEN @ + 1 ELSE @,
              !.at = IF ran.value /\ r.i < Len(Scripts00) THEN "loop" ELSE "summary"]

main_00_loop(r, script_name, ran) ==
    [r EXCEPT !.printed = @ \o ran.lines
                            \o (IF ran.value THEN <<>> ELSE <<<<"Stopping", script_name, 0>>>>),
              !.results = Append(@, <<script_name, ran.value>>),
              !.all_success = @ /\ ran.value,
              !.i = IF ran.value THEN @ + 1 ELSE @,
              !.at = IF ran.value /\ r.i < Len(Scripts00) THEN "loop" ELSE "summary"]

StatusLines(res) == [k \in 1..Len(res) |-> <<IF res[k][2] THEN "Success" ELSE "Failed", res[k][1], 0>>]

\* The summary and the return value of main, which is the exit status.
main_00_summary(r) ==
    [r EXCEPT !.printed = @ \o <<<<"SUMMARY", "", 0>>>> \o StatusLines(r.results)
                            \o (IF r.all_success THEN <<SuccessLine>> ELSE <<>>),
              !.exit = <<IF r.all_success THEN 0 ELSE 1>>,
              !.at = "exited"]

\* subprocess.run raised (text=True decodes the captured output, and raises
\* on bytes that are no text): the exception leaves run_script and main.
main_00_traceback(r) ==
    [r EXCEPT !.printed = Append(@, <<"Traceback", r.started[Len(r.started)], 0>>),
              !.exit = <<1>>,
              !.at = "exited"]

Unrelated == <<df, results, calls, loaded, script, pc, status, table>>

StartScript00 ==
    /\ runner.name = "00_run_all" /\ runner.at = "loop"
    /\ runner' = run_script_00_begin(runner, Scripts00[runner.i])
    /\ UNCHANGED Unrelated

ChildReturns00 ==
    /\ runner.name = "00_run_all" /\ runner.at = "child"
    /\ \E returncode \in ReturnCodes : \E stdout \in ChildTexts : \E stderr \in ChildTexts :
          runner' = [runner EXCEPT !.child = [returncode |-> returncode, stdout |-> stdout,
                                               stderr |-> stderr],
                                   !.finished = Append(@, returncode),
                                   !.at = "returned"]
    /\ UNCHANGED Unrelated

SubprocessRaises00 ==
    /\ runner.name = "00_run_all" /\ runner.at = "child"
    /\ runner' = main_00_traceback(runner)
    /\ UNCHANGED Unrelated

FinishScript00 ==
    /\ runner.name = "00_run_all" /\ runner.at = "returned"
    /\ runner' = main_00_loop([runner EXCEPT !.child = NoChild], Scripts00[runner.i],
                              run_script_00(Scripts00[runner.i], runner.child))
    /\ UNCHANGED Unrelated

Summary00 ==
    /\ runner.name = "00_run_all" /\ runner.at = "summary"
    /\ runner' = main_00_summary(runner)
    /\ UNCHANGED Unrelated

\* kwdwrd/4 run_all.py: the children write to the runner's own stdout and
\* stderr, nothing is captured.
ScriptsAll == <<"01_examine_original.py", "02_replicate.py", "03_collect_extension.py", "04_prepare_data.py", "05_extension_analysis.py">>

RunnerAll ==
    [name |-> "run_all", at |-> "loop", i |-> 1, started |-> <<>>, finished |-> <<>>,
     child |-> NoChild, results |-> <<>>, all_success |-> TRUE,
     printed |-> <<<<"VBM REPLICATION AND EXTENSION ANALYSIS", "", 0>>>>, exit |-> <<>>]

run_script_all_begin(r, script_name) ==
    [r EXCEPT !.printed = Append(@, <<"Running", script_name, 0>>),
              !.started = Append(@, script_name),
              !.at = "child"]

\* run_script from the result of subprocess.run on, and main's step to its
\* next statement: sys.exit(1) ends the process.
run_script_all_no_exit(r, script_name, result) ==
    [r EXCEPT !.printed = Append(@, IF result.returncode # 0
                                    THEN <<"ERROR", script_name, result.returncode>>
                                    ELSE <<"completed successfully", script_name, 0>>),
              !.i = @ + 1,
              !.at = IF r.i < Len(ScriptsAll) THEN "loop" ELSE "summary"]

run_script_all(r, script_name, result) ==
    IF result.returncode # 0
    THEN [r EXCEPT !.printed = Append(@, <<"ERROR", script_name, result.returncode>>),
                   !.exit = <<1>>,
                   !.at = "exited"]
    ELSE [r EXCEPT !.printed = Append(@, <<"completed successfully", script_name, 0>>),
                   !.i = @ + 1,
                   !.at = IF r.i < Len(ScriptsAll) THEN "loop" ELSE "summary"]

\* The end of main: the closing lines; main returns None, exit status 0.
main_all_end(r) ==
    [r EXCEPT !.printed = @ \o <<SuccessLine, <<"Outputs saved to:", "", 0>>>>,
              !.exit = <<0>>,
              !.at = "exited"]

StartScriptAll ==
    /\ runner.name = "run_all" /\ runner.at = "loop"
    /\ runner' = run_script_all_begin(runner, ScriptsAll[runner.i])
    /\ UNCHANGED Unrelated

ChildReturnsAll ==
    /\ runner.name = "run_all" /\ runner.at = "child"
    /\ \E returncode \in ReturnCodes :
          runner' = [runner EXCEPT !.child = [returncode |-> returncode, stdout |-> "",
                                               stderr |-> ""],
                                   !.finished = Append(@, returncode),
                                   !.at = "returned"]
    /\ UNCHANGED Unrelated

FinishScriptAll ==
    /\ runner.name = "run_all" /\ runner.at = "returned"
    /\ runner' = run_script_all([runner EXCEPT !.child = NoChild], ScriptsAll[runner.i],
                                runner.child)
    /\ UNCHANGED Unrelated

EndAll ==
    /\ runner.name = "run_all" /\ runner.at = "summary"
    /\ runner' = main_all_end(runner)
    /\ UNCHANGED Unrelated

InitRunners ==
    /\ runner \in {Runner00, RunnerAll}
    /\ df = [cols |-> DfCols, rows |-> <<>>]
    /\ loaded = df
    /\ results = [s \in Specs |-> Pending]
    /\ calls = 0
    /\ script = "orchestrator"
    /\ pc = 0
    /\ status = "running"
    /\ table = [s \in Specs |-> Pending]

NextRunners ==
    \/ StartScript00
    \/ ChildReturns00
    \/ SubprocessRaises00
    \/ FinishScript00
    \/ Summary00
    \/ StartScriptAll
    \/ ChildReturnsAll
    \/ FinishScriptAll
    \/ EndAll

SpecRunners == InitRunners /\ [][NextRunners]_vars

\* ------------------------------------------------ kwdwrd/4 04_prepare_data.py
\* prepare_extension_for_merge on the three files it is given.  A frame is
\* [cols, rows] with one record per row; numbers that may be missing are
\* rationals, NA for NaN.
\*
\* Left merge: every left row once per matching right row, in the order of
\* the left rows; a left row without a match once, with the new column
\* missing.
VcaMatches(row, vca) == SelectSeq(vca, LAMBDA v : v.county = row.county)

VcaJoined(row, found) ==
    IF found = <<>> THEN <<row @@ [vca_first_year |-> NA]>>
    ELSE [k \in 1..Len(found) |-> row @@ [vca_first_year |-> found[k].vca_first_year]]

RECURSIVE MergeVca(_, _)
MergeVca(rows, vca) ==
    IF rows = <<>> THEN <<>>
    ELSE VcaJoined(Head(rows), VcaMatches(Head(rows), vca)) \o MergeVca(Tail(rows), vca)

\* A slip that treats a county only after its first year.
ca_treat_after(year, vca_first_year) ==
    IF vca_first_year[2] # 0 /\ year * vca_first_year[2] > vca_first_year[1] THEN 1 ELSE 0

\* (year >= vca_first_year).astype(int): a comparison with NaN is False.
ca_treat(year, vca_first_year) ==
    IF vca_first_year[2] # 0 /\ year * vca_first_year[2] >= vca_first_year[1] THEN 1 ELSE 0

TreatOf(row) ==
    IF row.state \in {"UT", "WA"} THEN 1
    ELSE IF row.state = "CA" THEN ca_treat(row.year, row.vca_first_year)
    ELSE 0

DropColumn(row, col) == [f \in (DOMAIN row) \ {col} |-> row[f]]

construct_treatment_rows(merged) ==
    [i \in 1..Len(merged) |-> DropColumn(merged[i] @@ [treat |-> TreatOf(merged[i])], "vca_first_year")]

construct_treatment_variable(frame, vca) ==
    [cols |-> Append(frame.cols, "treat"),
     rows |-> construct_treatment_rows(MergeVca(frame.rows, vca))]

construct_outcome_variables(frame) ==
    [cols |-> Append(frame.cols, "dem_share"),
     rows |-> [i \in 1..Len(frame.rows) |->
                 frame.rows[i] @@ [dem_share |-> RDiv(RInt(frame.rows[i].dem_votes),
                                                      RInt(frame.rows[i].dem_votes + frame.rows[i].rep_votes))]]]

CvapMatches(row, cvap) ==
    SelectSeq(cvap, LAMBDA c : c.state = row.state /\ c.county = row.county /\ c.year = row.year)

CvapJoined(row, found) ==
    IF found = <<>> THEN <<row @@ [cvap |-> NA]>>
    ELSE [k \in 1..Len(found) |-> row @@ [cvap |-> RInt(found[k].cvap)]]

RECURSIVE MergeCvap(_, _)
MergeCvap(rows, cvap) ==
    IF rows = <<>> THEN <<>>
    ELSE CvapJoined(Head(rows), CvapMatches(Head(rows), cvap)) \o MergeCvap(Tail(rows), cvap)

\* A slip that leaves the turnout as computed.
clip_upper_none(v, upper) == v

\* Series.clip(upper=1.0): NaN stays NaN.
clip_upper(v, upper) == IF IsNA(v) THEN NA ELSE IF RLess(upper, v) THEN upper ELSE v

\* total_votes / cvap; the cvap file holds positive numbers only.
turnout_rows(merged) ==
    [i \in 1..Len(merged) |->
        merged[i] @@ [turnout_share |-> clip_upper(RDiv(RInt(merged[i].total_votes), merged[i].cvap),
                                                   RInt(1))]]

merge_cvap(frame, cvap) ==
    [cols |-> frame.cols \o <<"cvap", "turnout_share">>,
     rows |-> turnout_rows(MergeCvap(frame.rows, cvap))]

\* np.where(df['office'] == office, df['dem_share'], np.nan)
OfficeShare(row, office) == IF row.office = office THEN row.dem_share ELSE NA

office_columns(frame) ==
    [cols |-> frame.cols \o <<"period", "post_2018", "dem_share_gov", "dem_share_pres",
                             "dem_share_sen", "share_votes_dem", "vbm_share", "ballots_cast">>,
     rows |-> [i \in 1..Len(frame.rows) |->
                 frame.rows[i] @@ [period |-> "extension", post_2018 |-> 1,
                                   dem_share_gov |-> OfficeShare(frame.rows[i], "governor"),
                                   dem_share_pres |-> OfficeShare(frame.rows[i], "president"),
                                   dem_share_sen |-> OfficeShare(frame.rows[i], "senate"),
                                   share_votes_dem |-> NA, vbm_share |-> NA,
                                   ballots_cast |-> frame.rows[i].total_votes]]]

\* The files of 03_collect_extension.py: one result row per county and
\* election, three elections per state, the office set by state and year;
\* one cvap row per county and year; the adoption file holds at most one
\* row per California county, its first year 9999 for a county that has not
\* adopted.
ExtCounties == <<<<"CA", "Alameda">>, <<"CA", "Alpine">>, <<"UT", "Beaver">>, <<"WA", "Adams">>>>

ExtYears == <<2020, 2022, 2024>>

NeverAdopts == 9999

OfficeOf(state, year) ==
    IF year # 2022 THEN "president" ELSE IF state = "CA" THEN "governor" ELSE "senate"

ExtCells == {<<c, y>> : c \in 1..Len(ExtCounties), y \in 1..Len(ExtYears)}

CellRank(cell) == (cell[1] - 1) * Len(ExtYears) + cell[2]

RECURSIVE SortCells(_)
SortCells(cells) ==
    IF cells = {} THEN <<>>
    ELSE LET first == CHOOSE c \in cells : \A d \in cells : CellRank(c) <= CellRank(d)
         IN  <<first>> \o SortCells(cells \ {first})

ResultRow(cell, k) ==
    [state |-> ExtCounties[cell[1]][1], county |-> ExtCounties[cell[1]][2],
     year |-> ExtYears[cell[2]], office |-> OfficeOf(ExtCounties[cell[1]][1], ExtYears[cell[2]]),
     dem_votes |-> (CellRank(cell) + k) % 3, rep_votes |-> CellRank(cell) % 2,
     total_votes |-> ((CellRank(cell) + k) % 3) + (CellRank(cell) % 2) + (k % 2)]

ResultsFile(cells, k) ==
    [cols |-> <<"total_votes", "dem_votes", "rep_votes", "county", "state", "year", "office">>,
     rows |-> [i \in 1..Len(SortCells(cells)) |-> ResultRow(SortCells(cells)[i], k)]]

AdoptionYears == {RInt(2018), RInt(2022), RInt(NeverAdopts), NA}

AdoptionFiles ==
    {<<>>}
    \cup {<<[county |-> "Alameda", vca_first_year |-> a]>> : a \in AdoptionYears}
    \cup {<<[county |-> "Alameda", vca_first_year |-> a], [county |-> "Alpine", vca_first_year |-> b]>> :
             a \in AdoptionYears, b \in AdoptionYears}

CvapFile(counties) ==
    [i \in 1..Len(SortCells({cell \in ExtCells : cell[1] \in counties})) |->
        [state |-> ExtCounties[SortCells({cell \in ExtCells : cell[1] \in counties})[i][1]][1],
         county |-> ExtCounties[SortCells({cell \in ExtCells : cell[1] \in counties})[i][1]][2],
         year |-> ExtYears[SortCells({cell \in ExtCells : cell[1] \in counties})[i][2]],
         cvap |-> 2]]

\* pc counts the statements of prepare_extension_for_merge that have run;
\* df is its frame, loaded the three files.
InitPrepare ==
    /\ script \in {"04_prepare_data", "v3_03_collect", "v2_04_prepare"}
    /\ \E gone \in {g \in SUBSET ExtCells : Cardinality(g) <= MaxAbsent} :
       \E k \in 0..1 :
       \E vca \in AdoptionFiles :
       \E counties \in IF script = "04_prepare_data" THEN SUBSET (1..Len(ExtCounties))
                        ELSE {1..Len(ExtCounties)} :
          loaded = [results |-> ResultsFile(ExtCells \ gone, k), vca |-> vca,
                    cvap |-> CvapFile(counties)]
    /\ df = loaded.results
    /\ results = [s \in Specs |-> Pending]
    /\ calls = 0
    /\ pc = 0
    /\ status = "running"
    /\ table = [s \in Specs |-> Pending]
    /\ runner = NoRunner

\* kwdwrd/3 03_collect_extension.create_treatment_variable: one record per
\* county of the 2020 presidential file and year of [2020, 2022, 2024].
vca_year_v3(found) == IF found = <<>> THEN RInt(NeverAdopts) ELSE found[1].vca_first_year

\* 'treat': 1 if year >= vca_year else 0
treat_v3(year, vca_year) ==
    IF vca_year[2] # 0 /\ year * vca_year[2] >= vca_year[1] THEN 1 ELSE 0

Counties2020(rows) == SelectSeq(rows, LAMBDA r : r.year = 2020)

treatment_record_v3(r, year, vca) ==
    [state |-> r.state, county |-> r.county, year |-> year,
     treat |-> IF r.state = "CA" THEN treat_v3(year, vca_year_v3(VcaMatches(r, vca))) ELSE 1,
     vca_first_year |-> IF r.state = "CA" /\ RLess(vca_year_v3(VcaMatches(r, vca)), RInt(NeverAdopts))
                        THEN vca_year_v3(VcaMatches(r, vca)) ELSE NA]

treatment_records_v3(counties, vca) ==
    [k \in 1..(Len(counties) * Len(ExtYears)) |->
        treatment_record_v3(counties[((k - 1) \div Len(ExtYears)) + 1],
                            ExtYears[((k - 1) % Len(ExtYears)) + 1], vca)]

create_treatment_variable_v3(frame, vca) ==
    [cols |-> <<"state", "county", "year", "treat", "vca_first_year">>,
     rows |-> treatment_records_v3(Counties2020(frame.rows), vca)]

\* kwdwrd/2 04_prepare_extension.py: treat_year per county (np.inf for 9999,
\* 2019 for Utah, 2011 for Washington), left merge on county and state,
\* treat = (year >= treat_year).astype(int).
Infinity == <<1, 0>>

treat_year_v2(vca_first_year) ==
    IF vca_first_year = RInt(NeverAdopts) THEN Infinity ELSE vca_first_year

TimingMatches_v2(row, vca) ==
    IF row.state = "UT" THEN <<RInt(2019)>>
    ELSE IF row.state = "WA" THEN <<RInt(2011)>>
    ELSE [k \in 1..Len(VcaMatches(row, vca)) |-> treat_year_v2(VcaMatches(row, vca)[k].vca_first_year)]

\* A slip that treats a county in its first year only.
treat_v2_first_year_only(year, treat_year) ==
    IF treat_year[2] # 0 /\ year * treat_year[2] = treat_year[1] THEN 1 ELSE 0

\* A comparison with NaN or with inf from below is False.
treat_v2(year, treat_year) ==
    IF treat_year[2] # 0 /\ year * treat_year[2] >= treat_year[1] THEN 1 ELSE 0

TimingJoined_v2(row, found) ==
    IF found = <<>> THEN <<row @@ [treat_year |-> NA, treat |-> treat_v2(row.year, NA)]>>
    ELSE [k \in 1..Len(found) |-> row @@ [treat_year |-> found[k], treat |-> treat_v2(row.year, found[k])]]

RECURSIVE panel_rows_v2(_, _)
panel_rows_v2(rows, vca) ==
    IF rows = <<>> THEN <<>>
    ELSE TimingJoined_v2(Head(rows), TimingMatches_v2(Head(rows), vca)) \o panel_rows_v2(Tail(rows), vca)

panel_v2(frame, vca) ==
    [cols |-> frame.cols \o <<"treat_year", "treat">>, rows |-> panel_rows_v2(frame.rows, vca)]

PrepareStep(n, frame) ==
    /\ script = "04_prepare_data"
    /\ pc = n
    /\ df' = frame
    /\ pc' = pc + 1
    /\ UNCHANGED <<results, calls, loaded, script, status, table, runner>>

ConstructTreatment == PrepareStep(0, construct_treatment_variable(df, loaded.vca))

ConstructOutcomes == PrepareStep(1, construct_outcome_variables(df))

MergeCvapStep == PrepareStep(2, merge_cvap(df, loaded.cvap))

OfficeColumns == PrepareStep(3, office_columns(df))

\* The treatment steps of the other two variants, on the same files.
OtherStep(name, frame) ==
    /\ script = name
    /\ pc = 0
    /\ df' = frame
    /\ pc' = pc + 1
    /\ UNCHANGED <<results, calls, loaded, script, status, table, runner>>

CreateTreatment_v3 == OtherStep("v3_03_collect", create_treatment_variable_v3(df, loaded.vca))

PreparePanel_v2 == OtherStep("v2_04_prepare", panel_v2(df, loaded.vca))

NextPrepare ==
    \/ ConstructTreatment
    \/ ConstructOutcomes
    \/ MergeCvapStep
    \/ OfficeColumns
    \/ CreateTreatment_v3
    \/ PreparePanel_v2

SpecPrepare == InitPrepare /\ [][NextPrepare]_vars

\* --------------------------------------------- kwdwrd/3 04_merge_extension.py
\* assign_identifiers and combine_datasets.  df is the extension panel of
\* create_extension_panel (the counties of the original data by the years
\* 2020, 2022, 2024, year after year), loaded.original the original data,
\* loaded.extension the panel as it was given.
StateRank(state) == IF state = "CA" THEN 1 ELSE IF state = "UT" THEN 2 ELSE 3

\* sort_values(['state', 'year']) on the distinct (state, year) pairs
PairBefore(p, q) == StateRank(p[1]) < StateRank(q[1]) \/ (p[1] = q[1] /\ p[2] < q[2])

StateYears(rows) == {<<rows[i].state, rows[i].year>> : i \in 1..Len(rows)}

MaxOf(values) == CHOOSE v \in values : \A w \in values : w <= v

\* A slip that starts the range at the largest original id.
extension_state_year_id_from_max(pairs, p, max_state_year_id) ==
    max_state_year_id + Cardinality({q \in pairs : PairBefore(q, p)})

\* range(max + 1, max + 1 + len(extension_state_years)) over the sorted pairs
extension_state_year_id(pairs, p, max_state_year_id) ==
    max_state_year_id + 1 + Cardinality({q \in pairs : PairBefore(q, p)})

\* original_df[['state', 'county', 'county_id']].drop_duplicates()
RECURSIVE county_map(_)
county_map(rows) ==
    IF rows = <<>> THEN <<>>
    ELSE LET front == county_map(SubSeq(rows, 1, Len(rows) - 1))
             last == [state |-> rows[Len(rows)].state, county |-> rows[Len(rows)].county,
                      county_id |-> rows[Len(rows)].county_id]
         IN  IF \E i \in 1..Len(front) : front[i] = last THEN front ELSE Append(front, last)

CountyIdMatches(row, map) == SelectSeq(map, LAMBDA c : c.state = row.state /\ c.county = row.county)

CountyIdJoined(row, found) ==
    IF found = <<>> THEN <<row @@ [county_id |-> 0, county_id_missing |-> TRUE]>>
    ELSE [k \in 1..Len(found) |-> row @@ [county_id |-> found[k].county_id, county_id_missing |-> FALSE]]

RECURSIVE MergeCountyId(_, _)
MergeCountyId(rows, map) ==
    IF rows = <<>> THEN <<>>
    ELSE CountyIdJoined(Head(rows), CountyIdMatches(Head(rows), map)) \o MergeCountyId(Tail(rows), map)

\* The second merge: the pairs are distinct, each row has one match.
with_state_year_id(rows, pairs, max_state_year_id) ==
    [i \in 1..Len(rows) |->
        rows[i] @@ [state_year_id |-> extension_state_year_id(pairs, <<rows[i].state, rows[i].year>>,
                                                              max_state_year_id)]]

assign_identifiers(frame, original_df) ==
    [cols |-> frame.cols \o <<"county_id", "state_year_id">>,
     rows |-> with_state_year_id(MergeCountyId(frame.rows, county_map(original_df.rows)),
                                 StateYears(frame.rows),
                                 MaxOf({original_df.rows[i].state_year_id : i \in 1..Len(original_df.rows)}))]

\* combine_datasets: the extension rows under the original rows, sorted by
\* state, county, year.
CountyRank(row) == CHOOSE c \in 1..Len(ExtCounties) : ExtCounties[c] = <<row.state, row.county>>

RowBefore(a, b) == CountyRank(a) < CountyRank(b) \/ (CountyRank(a) = CountyRank(b) /\ a.year < b.year)

SortRows(rows) ==
    [k \in 1..Len(rows) |->
        rows[CHOOSE i \in 1..Len(rows) :
                Cardinality({j \in 1..Len(rows) : RowBefore(rows[j], rows[i])}) = k - 1]]

combine_datasets(original_df, extension_df) ==
    [cols |-> original_df.cols,
     rows |-> SortRows(original_df.rows
                       \o [i \in 1..Len(extension_df.rows) |->
                              [c \in {original_df.cols[k] : k \in 1..Len(original_df.cols)} |->
                                  extension_df.rows[i][c]]])]

OriginalYears == <<2016, 2018>>

OriginalRow(c, y, base, step) ==
    [state |-> ExtCounties[c][1], county |-> ExtCounties[c][2], year |-> OriginalYears[y],
     county_id |-> c * step,
     state_year_id |-> base + (StateRank(ExtCounties[c][1]) - 1) * Len(OriginalYears) + y]

OriginalFile(counties, base, step) ==
    [cols |-> <<"state", "county", "year", "county_id", "state_year_id">>,
     rows |-> [i \in 1..(Len(counties) * Len(OriginalYears)) |->
                 OriginalRow(counties[((i - 1) \div Len(OriginalYears)) + 1],
                             ((i - 1) % Len(OriginalYears)) + 1, base, step)]]

\* counties x years, year after year
ExtensionPanelOf(counties) ==
    [cols |-> <<"state", "county", "year">>,
     rows |-> [i \in 1..(Len(counties) * Len(ExtYears)) |->
                 [state |-> ExtCounties[counties[((i - 1) % Len(counties)) + 1]][1],
                  county |-> ExtCounties[counties[((i - 1) % Len(counties)) + 1]][2],
                  year |-> ExtYears[((i - 1) \div Len(counties)) + 1]]]]

CountyLists ==
    {l \in UNION {[1..n -> 1..Len(ExtCounties)] : n \in 1..Len(ExtCounties)} :
        \A i, j \in 1..Len(l) : i # j => l[i] # l[j]}

InitIdentifiers ==
    /\ \E counties \in CountyLists : \E base \in 0..MaxBase : \E step \in 1..2 :
          /\ loaded = [original |-> OriginalFile(counties, base, step),
                       extension |-> ExtensionPanelOf(counties)]
          /\ df = loaded.extension
    /\ results = [s \in Specs |-> Pending]
    /\ calls = 0
    /\ script = "v3_04_merge"
    /\ pc = 0
    /\ status = "running"
    /\ table = [s \in Specs |-> Pending]
    /\ runner = NoRunner

AssignIdentifiers ==
    /\ script = "v3_04_merge" /\ pc = 0
    /\ df' = assign_identifiers(df, loaded.original)
    /\ pc' = 1
    /\ UNCHANGED <<results, calls, loaded, script, status, table, runner>>

CombineDatasets ==
    /\ script = "v3_04_merge" /\ pc = 1
    /\ df' = combine_datasets(loaded.original, df)
    /\ pc' = 2
    /\ UNCHANGED <<results, calls, loaded, script, status, table, runner>>

NextIdentifiers == AssignIdentifiers \/ CombineDatasets

SpecIdentifiers == InitIdentifiers /\ [][NextIdentifiers]_vars

\* ------------------------------------------------ stacking the vote shares
\* The analysis frame has one row per county and year, with the three
\* columns dem_share_gov, dem_share_pres, dem_share_sen; the stacked frame has
\* one row per vote share.  df holds the wide frame, then the stacked one.
\*
\* A slip that appends a row for a missing share too.
cell_rows_all(row, office, var) ==
    <<[state |-> row.state, county |-> row.county, year |-> row.year,
       county_id |-> row.county_id, state_year |-> row.state_year, treat |-> row.treat,
       office |-> office, dem_share |-> row[var]]>>

\* if pd.notna(row[var]): rows.append({...})
cell_rows(row, office, var) ==
    IF IsNA(row[var]) THEN <<>>
    ELSE <<[state |-> row.state, county |-> row.county, year |-> row.year,
            county_id |-> row.county_id, state_year |-> row.state_year, treat |-> row.treat,
            office |-> office, dem_share |-> row[var]]>>

RECURSIVE office_loop(_, _)
office_loop(row, offices) ==
    IF offices = <<>> THEN <<>>
    ELSE cell_rows(row, Head(offices)[1], Head(offices)[2]) \o office_loop(row, Tail(offices))

RECURSIVE iterrows_loop(_, _)
iterrows_loop(rows, offices) ==
    IF rows = <<>> THEN <<>>
    ELSE office_loop(Head(rows), offices) \o iterrows_loop(Tail(rows), offices)

StackedCols == <<"state", "county", "year", "county_id", "state_year", "treat", "office", "dem_share">>

\* kwdwrd/4 05_extension_analysis.reshape_to_vote_share_panel (which also
\* copies post_2018)
reshape_to_vote_share_panel(frame) ==
    [cols |-> StackedCols,
     rows |-> iterrows_loop(frame.rows, <<<<"pres", "dem_share_pres">>, <<"gov", "dem_share_gov">>,
                                         <<"sen", "dem_share_sen">>>>)]

\* kwdwrd/4 02_replicate.replicate_table2, the loop that fills vote_share_long
vote_share_long_rows(frame) ==
    [cols |-> StackedCols,
     rows |-> iterrows_loop(frame.rows, <<<<"gov", "dem_share_gov">>, <<"pres", "dem_share_pres">>,
                                         <<"sen", "dem_share_sen">>>>)]

\* kwdwrd/2 02_replicate.prepare_dem_voteshare_data: melt lists the cells
\* column after column, 'dem_share_' is taken off the column name, dropna
\* drops the rows without a share.
melt_rows(rows, var) ==
    [i \in 1..Len(rows) |->
        [state |-> rows[i].state, county |-> rows[i].county, year |-> rows[i].year,
         county_id |-> rows[i].county_id, state_year |-> rows[i].state_year,
         treat |-> rows[i].treat,
         office |-> IF var = "dem_share_gov" THEN "gov" ELSE IF var = "dem_share_pres" THEN "pres" ELSE "sen",
         dem_share |-> rows[i][var]]]

melt_dropna(frame) ==
    [cols |-> StackedCols,
     rows |-> SelectSeq(melt_rows(frame.rows, "dem_share_gov") \o melt_rows(frame.rows, "dem_share_pres")
                        \o melt_rows(frame.rows, "dem_share_sen"),
                        LAMBDA r : ~IsNA(r.dem_share))]

\* Wide frames: two counties by two years, each of the three shares present
\* or missing, every present share a number of its own.
WideCells == <<<<1, 1>>, <<1, 2>>, <<2, 1>>, <<2, 2>>>>

WideRow(i, marks) ==
    [state |-> "CA", county |-> ExtCounties[WideCells[i][1]][2], year |-> ExtYears[WideCells[i][2]],
     county_id |-> WideCells[i][1], state_year |-> WideCells[i][2],
     treat |-> IF WideCells[i] = <<1, 2>> THEN 1 ELSE 0,
     dem_share_gov |-> IF marks[i][1] THEN Rat(3 * i + 1, 20) ELSE NA,
     dem_share_pres |-> IF marks[i][2] THEN Rat(3 * i + 2, 20) ELSE NA,
     dem_share_sen |-> IF marks[i][3] THEN Rat(3 * i + 3, 20) ELSE NA]

InitStack ==
    /\ script \in {"v4_05_reshape", "v4_02_reshape", "v2_02_melt"}
    /\ \E n \in 1..Len(WideCells) : \E marks \in [1..n -> [1..3 -> BOOLEAN]] :
          loaded = [cols |-> <<"state", "county", "year", "county_id", "state_year", "treat",
                               "dem_share_gov", "dem_share_pres", "dem_share_sen">>,
                    rows |-> [i \in 1..n |-> WideRow(i, marks)]]
    /\ df = loaded
    /\ results = [s \in Specs |-> Pending]
    /\ calls = 0
    /\ pc = 0
    /\ status = "running"
    /\ table = [s \in Specs |-> Pending]
    /\ runner = NoRunner

StackStep(name, frame) ==
    /\ script = name
    /\ pc = 0
    /\ df' = frame
    /\ pc' = 1
    /\ UNCHANGED <<results, calls, loaded, script, status, table, runner>>

ReshapeExtension == StackStep("v4_05_reshape", reshape_to_vote_share_panel(df))

ReshapeReplication == StackStep("v4_02_reshape", vote_share_long_rows(df))

MeltReplication == StackStep("v2_02_melt", melt_dropna(df))

NextStack == ReshapeExtension \/ ReshapeReplication \/ MeltReplication

SpecStack == InitStack /\ [][NextStack]_vars

\* ---------------------------------------------------------------- properties
LiteralOrder(y_var) == <<y_var, "treat", "county_id", "state_year", "year">>

\* What one call on frame f returns for specification s.
Returned(f, s) ==
    run_twfe_regression(f, s[1], "treat", "county_id", "state_year", "county_id",
                        s[2], LiteralOrder(s[1])).call.ret

GroupSum(keys, vals, key) ==
    RSum(Eager([i \in 1..Len(vals) |-> IF keys[i] = key THEN vals[i] ELSE RZero]))

SumsToZero(keys, vals) == \A i \in 1..Len(keys) : GroupSum(keys, vals, keys[i]) = RZero

NonZero(vals) == \E i \in 1..Len(vals) : vals[i] # RZero

\* The frame with its rows in another order.
Reordered(frame, perm) ==
    [cols |-> frame.cols, rows |-> Eager([i \in 1..Len(frame.rows) |-> frame.rows[perm[i]]])]

\* C1: whenever the library backend raises during an estimator call, the
\* call does not let the exception out: it runs the manual within
\* transformation on the same rows, filter and trend type and returns what
\* that gives.
C1_BackendFailureFallsBack ==
    \A s \in Specs :
        (Done(s) /\ results[s].backend = "raised") =>
            /\ results[s].ret.kind # "raise"
            /\ results[s].manual # NotRun
            /\ results[s].ret = results[s].manual

\* C2: when the backend raises and the manual fallback raises as well, no
\* exception leaves the call: it returns the no-result value.
C2_DoubleFailureGivesNoResult ==
    \A s \in Specs :
        (Done(s) /\ results[s].backend = "raised" /\ results[s].manual.kind = "raise") =>
            results[s].ret.kind = "none"

\* C3: a table-building function that has ended has estimated every one of
\* its specifications, and recorded each one that gave a result; a failed or
\* empty specification stops none of the others.
C3_EverySpecificationProcessed ==
    status # "running" =>
        \A s \in ProgramSpecs(script) :
            /\ Done(s)
            /\ results[s].ret.kind = "ok" => table[s] = results[s].ret

\* C4: when no row of the panel has outcome, treatment, entity and time all
\* present, the call returns the no-result signal and raises nothing, under
\* every trend type.
C4_EmptyPanelGivesNoResult ==
    \A s \in Specs :
        (Done(s) /\ Len(results[s].county) = 0) => results[s].ret.kind = "none"

\* C5: the cluster-robust standard error that a call returns is the same for
\* every order of the panel's rows, under every trend type.
C5_StdErrorIgnoresRowOrder ==
    \A s \in Specs :
        (Done(s) /\ results[s].ret.kind = "ok") =>
            \A perm \in Permutations(1..Len(df.rows)) :
                LET other == Returned(Reordered(df, perm), s)
                IN  other.kind = "ok" /\ other.se2 = results[s].ret.se2

\* C6: a call repeated with the same arguments returns the same coefficient
\* and standard error, whatever the iteration order of the column set.
C6_RepeatedCallSameResult ==
    [][\A s \in Specs : Done(s) => results'[s].ret = results[s].ret]_vars

C6_Witness ==
    /\ calls = 2
    /\ \E s \in Specs :
          /\ \A t \in Specs : Done(t) <=> t = s
          /\ results[s].ret.kind = "ok"
          /\ results[s].ret.coef # RZero

\* C7: an estimator call leaves the frame it was given as it was (the same
\* rows, columns and values), whichever way it ends: with a result, with no
\* result, or through the fallback.
C7_CallLeavesPanelUnchanged ==
    [][calls' # calls => df' = df]_vars

C7_Witness ==
    /\ script = "v2_02"
    /\ status = "done"
    /\ df = prepare_dem_voteshare_data(loaded)
    /\ \E s, t, u \in Specs :
          /\ Done(s) /\ results[s].ret.kind = "none"
          /\ Done(t) /\ results[t].backend = "raised" /\ results[t].ret.kind = "ok"
          /\ Done(u) /\ results[u].backend = "returned"

C9_SumsZeroInBothGroupings ==
    \A s \in Specs :
        Done(s) =>
            /\ SumsToZero(results[s].county, results[s].y_dm2)
            /\ SumsToZero(results[s].county, results[s].treat_dm2)
            /\ SumsToZero(results[s].state_year, results[s].y_dm2)
            /\ SumsToZero(results[s].state_year, results[s].treat_dm2)

\* Every county has as many retained rows in one state-year as in another.
Balanced(county, state_year) ==
    \A i, j \in 1..Len(county) :
        Cardinality({k \in 1..Len(county) : county[k] = county[i] /\ state_year[k] = state_year[i]})
      = Cardinality({k \in 1..Len(county) : county[k] = county[i] /\ state_year[k] = state_year[j]})

\* C9 as amended: the twice-demeaned outcome and treatment sum to zero within
\* every state-year for every panel, and within every county when the panel
\* is balanced.
C9_SumsZeroByStateYear ==
    \A s \in Specs :
        Done(s) =>
            /\ SumsToZero(results[s].state_year, results[s].y_dm2)
            /\ SumsToZero(results[s].state_year, results[s].treat_dm2)
            /\ Balanced(results[s].county, results[s].state_year) =>
                  /\ SumsToZero(results[s].county, results[s].y_dm2)
                  /\ SumsToZero(results[s].county, results[s].treat_dm2)

C9_Witness ==
    \E s \in Specs :
        /\ Done(s)
        /\ ~Balanced(results[s].county, results[s].state_year)
        /\ NonZero(results[s].y_dm2) /\ NonZero(results[s].treat_dm2)
        /\ ~SumsToZero(results[s].county, results[s].y_dm2)

\* C10: when all retained rows share one state-year, the state-year demeaning
\* changes nothing: the twice-demeaned values are the county-demeaned ones.
C10_SinglePeriodNoOp ==
    \A s \in Specs :
        (Done(s) /\ NUnique(results[s].state_year) = 1) =>
            /\ results[s].y_dm2 = results[s].y_dm
            /\ results[s].treat_dm2 = results[s].treat_dm

C10_Witness ==
    \E s \in Specs :
        /\ Done(s)
        /\ NUnique(results[s].state_year) = 1
        /\ NUnique(results[s].county) > 1
        /\ NonZero(results[s].y_dm)

\* Rows of the sample that belong to a county with fewer rows than the trend
\* regression has parameters.
ShortCountyRows(county, trend_type) ==
    {i \in 1..Len(county) :
        Cardinality({k \in 1..Len(county) : county[k] = county[i]}) < TrendMinRows(trend_type)}

\* C11: under a linear or quadratic trend, every row of a county with fewer
\* rows than trend parameters (fewer than 2, fewer than 3) keeps its
\* twice-demeaned outcome and treatment as the values handed to the final
\* regression.
C11_ShortCountyPassesThrough ==
    \A s \in Specs :
        (Done(s) /\ s[2] # "none") =>
            \A i \in ShortCountyRows(results[s].county, s[2]) :
                /\ results[s].y_final[i] = results[s].y_dm2[i]
                /\ results[s].x_final[i] = results[s].treat_dm2[i]

\* C12: on every balanced panel of 3 counties by 4 periods whose outcome is a
\* county effect plus a period effect plus 0.05 times a treatment that varies
\* within counties and within periods, the call with trend_type 'none'
\* returns the coefficient 0.05.
C12_PlantedEffectRecovered ==
    \A s \in Specs :
        (Done(s) /\ s[2] = "none") =>
            /\ results[s].ret.kind = "ok"
            /\ results[s].ret.coef = PlantedEffect

C12_Witness ==
    /\ Len(loaded.rows) = Cardinality(PlantedCounties) * Cardinality(PlantedPeriods)
    /\ NUnique(Column(loaded, "dem_share")) >= 5
    /\ Done(<<"dem_share", "none">>)
    /\ results[<<"dem_share", "none">>].ret.kind = "ok"
    /\ results[<<"dem_share", "none">>].ret.coef = PlantedEffect
    /\ NonZero(results[<<"dem_share", "none">>].y_dm2)

\* The rows of a frame in which outcome, treatment, county and state-year are
\* all present.
FourPresent(frame, y_var) ==
    {i \in 1..Len(frame.rows) :
        \A c \in {y_var, "treat", "county_id", "state_year"} : ~IsNA(Column(frame, c)[i])}

\* C13: the rows a call estimates on are exactly the input rows whose
\* outcome, treatment, county and state-year are all present, and the number
\* of observations it reports is their number, under every trend type.
C13_RowsDroppedIffMissing ==
    \A s \in Specs :
        Done(s) =>
            /\ Len(results[s].county) = Cardinality(FourPresent(loaded, s[1]))
            /\ results[s].ret.kind = "ok" =>
                  results[s].ret.n_obs = Cardinality(FourPresent(loaded, s[1]))

\* No two rows of the frame that have the outcome share county and state-year.
OneRowPerCell(frame, y_var) ==
    \A i, j \in 1..Len(frame.rows) :
        (/\ i # j
         /\ ~IsNA(Column(frame, y_var)[i])
         /\ ~IsNA(Column(frame, y_var)[j])
         /\ Column(frame, "county_id")[i] = Column(frame, "county_id")[j])
        => Column(frame, "state_year")[i] # Column(frame, "state_year")[j]

\* C14: every frame that a table-building function is about to pass to the
\* estimator has at most one row per county and state-year for the outcome
\* estimated, the stacked vote-share frame included.
C14_OneRowPerCellPassed ==
    \A name \in Scripts :
        AtStep(name, "call") => OneRowPerCell(df, Program(name)[pc].spec[1])

\* Rows of the sample whose county has no other row in it.
SingleRows(county) ==
    {i \in 1..Len(county) : Cardinality({k \in 1..Len(county) : county[k] = county[i]}) = 1}

SixOutputs(r) ==
    /\ "coef" \in DOMAIN r
    /\ {"se", "se2"} \cap DOMAIN r # {}
    /\ "pval" \in DOMAIN r
    /\ "n_obs" \in DOMAIN r
    /\ {"n_counties", "n_entities", "n_clusters"} \cap DOMAIN r # {}
    /\ {"n_elections", "n_periods"} \cap DOMAIN r # {}

\* C16: every result an estimator returns, other than the no-result signal,
\* carries coefficient, standard error, p-value, number of observations,
\* number of entities and number of time periods.
C16_ResultHasSixOutputs ==
    \A s \in Specs :
        (Done(s) /\ results[s].ret.kind = "ok") => SixOutputs(results[s].ret)

\* The call could not estimate: too few complete rows, or the backend
\* raised, or the manual path raised.
CannotEstimate(r) ==
    \/ r.n < MinRowsExtension
    \/ r.backend = "raised"
    \/ (r.manual # NotRun /\ r.manual.kind = "raise")

\* C17: when the extension estimator of kwdwrd/3 cannot estimate, it raises
\* nothing and returns a record whose coef, se, t and p are missing and whose
\* note is a non-empty reason; no record with a missing coefficient has an
\* empty note.
C17_UnavailableHasReason ==
    \A s \in Specs :
        Done(s) =>
            /\ results[s].ret.kind # "raise"
            /\ CannotEstimate(results[s]) =>
                  /\ IsNA(results[s].ret.coef) /\ IsNA(results[s].ret.se2)
                  /\ IsNA(results[s].ret.t2) /\ IsNA(results[s].ret.p)
                  /\ results[s].ret.note # ""
            /\ IsNA(results[s].ret.coef) => results[s].ret.note # ""

\* Two returned values are the same outcome: both no result, both the same
\* exception, or both a result with equal coef, se, pval, n_obs, n_clusters.
SameOutcome(a, b) ==
    /\ a.kind = b.kind
    /\ a.kind = "raise" => a.error = b.error
    /\ a.kind = "ok" =>
          /\ a.coef = b.coef /\ a.se2 = b.se2 /\ a.pval = b.pval
          /\ a.n_obs = b.n_obs /\ a.n_clusters = b.n_clusters

\* C18: on every panel and under every trend type the extension script's
\* run_twfe_regression, without additional controls, returns the same
\* outcome as the replication script's.
C18_ExtensionSameAsReplication ==
    \A s \in Specs :
        Done(s) => SameOutcome(results[s].replicate, results[s].extension)

\* The children started are the first ones of the list, in its order.
StartedInOrder(list) ==
    /\ Len(runner.started) <= Len(list)
    /\ \A k \in 1..Len(runner.started) : runner.started[k] = list[k]

\* Every child but the one started last has ended with return code 0.
EarlierAllZero ==
    /\ Len(runner.finished) >= Len(runner.started) - 1
    /\ \A k \in 1..(Len(runner.started) - 1) : runner.finished[k] = 0

\* No child was started after one that ended with a non-zero code.
NoneAfterFailure ==
    \A k \in 1..Len(runner.finished) :
        runner.finished[k] # 0 => Len(runner.started) = k

\* C19: 00_run_all.py starts 02_replicate, 03_collect_extension,
\* 04_merge_extension, 05_extension_analysis strictly in that order; a script
\* is started only after every earlier one has finished with return code 0,
\* and no script is started after the first one that returns a non-zero code.
C19_RunAllStopsAtFirstFailure ==
    runner.name = "00_run_all" =>
        /\ StartedInOrder(Scripts00)
        /\ EarlierAllZero
        /\ NoneAfterFailure

\* The second script has failed and the run is over with two scripts started.
C19_Witness ==
    /\ runner.name = "00_run_all"
    /\ runner.at = "exited"
    /\ runner.finished = <<0, 1>>
    /\ runner.started = <<"02_replicate.py", "03_collect_extension.py">>
    /\ runner.exit = <<1>>

\* C20: run_all.py runs 01_examine_original, 02_replicate,
\* 03_collect_extension, 04_prepare_data, 05_extension_analysis in that order;
\* at the first script that returns a non-zero code it exits with status 1
\* and starts no later script, and it prints ALL ANALYSES COMPLETED
\* SUCCESSFULLY only if all five scripts returned 0.
C20_RunAllExitsAtFirstFailure ==
    runner.name = "run_all" =>
        /\ StartedInOrder(ScriptsAll)
        /\ EarlierAllZero
        /\ NoneAfterFailure
        /\ \A k \in 1..Len(runner.finished) :
              (runner.finished[k] # 0 /\ runner.at # "returned") =>
                  runner.at = "exited" /\ runner.exit = <<1>>
        /\ (\E k \in 1..Len(runner.printed) : runner.printed[k] = SuccessLine) =>
              runner.finished = <<0, 0, 0, 0, 0>>

\* The third script has failed and the run has exited with status 1.
C20_Witness ==
    /\ runner.name = "run_all"
    /\ runner.at = "exited"
    /\ runner.finished = <<0, 0, 2>>
    /\ Len(runner.started) = 3
    /\ runner.exit = <<1>>

\* The sample of a call and its centred year, as Step 3 computes it.
SampleOf(frame, y_var) == DropNA(SelectCols(frame, <<y_var, "treat", "county_id", "state_year", "year">>))

YearCentred(year) == Eager([i \in 1..Len(year) |-> RSub(year[i], RDiv(RSum(year), RInt(Len(year))))])

\* The residual of row i in the trend regression of its own county.
OwnResidual(keys, year_c, vals, trend_type, i) ==
    CountyResid(RowsOf(keys, keys[i]), year_c, vals, trend_type)[Cardinality({k \in 1..i : keys[k] = keys[i]})]

\* C21: after linear or quadratic trend absorption, whatever the order of the
\* input rows, the value at each row position of the final outcome and
\* treatment series is the residual computed from that same row.
C21_ResidualStaysOnItsRow ==
    \A s \in Specs :
        (Done(s) /\ s[2] # "none") =>
            \A i \in 1..Len(results[s].county) :
                /\ results[s].y_final[i] =
                       OwnResidual(results[s].county,
                                   YearCentred(Column(SampleOf(df, s[1]), "year")),
                                   results[s].y_dm2, s[2], i)
                /\ results[s].x_final[i] =
                       OwnResidual(results[s].county,
                                   YearCentred(Column(SampleOf(df, s[1]), "year")),
                                   results[s].treat_dm2, s[2], i)

\* main has run to its return statement: the summary is printed.
Returned00 ==
    /\ runner.name = "00_run_all"
    /\ runner.at = "exited"
    /\ \E k \in 1..Len(runner.printed) : runner.printed[k][1] = "SUMMARY"

\* C22: when main of 00_run_all.py returns, it returns 0 if all four scripts
\* returned code 0 and 1 otherwise; the results summary holds exactly the
\* scripts that were started, at most one of them marked failed, and a
\* failed one is the last entry.
C22_SummaryMatchesRun ==
    Returned00 =>
        /\ runner.exit = <<IF runner.finished = <<0, 0, 0, 0>> THEN 0 ELSE 1>>
        /\ Len(runner.results) = Len(runner.started)
        /\ \A k \in 1..Len(runner.results) :
              /\ runner.results[k][1] = runner.started[k]
              /\ runner.results[k][2] = (runner.finished[k] = 0)
              /\ ~runner.results[k][2] => k = Len(runner.results)

\* The third script has failed: three entries, the last one marked failed,
\* and main has returned 1.
C22_Witness ==
    /\ Returned00
    /\ runner.results = <<<<"02_replicate.py", TRUE>>, <<"03_collect_extension.py", TRUE>>,
                          <<"04_merge_extension.py", FALSE>>>>
    /\ runner.exit = <<1>>

\* The row of the results file that row i of the frame comes from: the
\* merges keep the order and the number of the rows.
SameCell(a, b) == a.state = b.state /\ a.county = b.county /\ a.year = b.year /\ a.office = b.office

AdoptionRecord(county) == SelectSeq(loaded.vca, LAMBDA v : v.county = county)

\* C23: construct_treatment_variable neither adds nor removes rows; treat is
\* 1 on every Utah and Washington row, on a California row it is 1 exactly
\* when the year is at or after the county's vca_first_year, and 0 for a
\* California county without adoption record.
C23_TreatmentFromAdoption ==
    (script = "04_prepare_data" /\ pc >= 1) =>
        /\ Len(df.rows) = Len(loaded.results.rows)
        /\ \A i \in 1..Len(df.rows) :
              /\ SameCell(df.rows[i], loaded.results.rows[i])
              /\ df.rows[i].state \in {"UT", "WA"} => df.rows[i].treat = 1
              /\ df.rows[i].state = "CA" =>
                    df.rows[i].treat =
                        IF AdoptionRecord(df.rows[i].county) = <<>> THEN 0
                        ELSE IF IsNA(AdoptionRecord(df.rows[i].county)[1].vca_first_year) THEN 0
                        ELSE IF df.rows[i].year >= AdoptionRecord(df.rows[i].county)[1].vca_first_year[1]
                        THEN 1 ELSE 0

\* Alameda adopted in 2022 and has an untreated and two treated rows, Alpine
\* has no record, Utah and Washington rows are there.
C23_Witness ==
    /\ script = "04_prepare_data" /\ pc = 1
    /\ loaded.vca = <<[county |-> "Alameda", vca_first_year |-> RInt(2022)]>>
    /\ Len(df.rows) = Cardinality(ExtCells)
    /\ df.rows[1].treat = 0 /\ df.rows[2].treat = 1 /\ df.rows[3].treat = 1
    /\ df.rows[4].county = "Alpine" /\ df.rows[4].treat = 0
    /\ df.rows[7].state = "UT" /\ df.rows[7].treat = 1

\* min(total_votes / cvap, 1) for a row and its cvap entry.
CappedTurnout(row, entry) ==
    IF row.total_votes > entry.cvap THEN RInt(1) ELSE Rat(row.total_votes, entry.cvap)

\* C25: after merge_cvap the number of rows is unchanged; every row with a
\* matching CVAP entry has turnout_share = min(total_votes / cvap, 1), never
\* above 1, and a row without a matching entry has a missing turnout_share.
C25_TurnoutCappedAtOne ==
    (script = "04_prepare_data" /\ pc >= 3) =>
        /\ Len(df.rows) = Len(loaded.results.rows)
        /\ \A i \in 1..Len(df.rows) :
              /\ SameCell(df.rows[i], loaded.results.rows[i])
              /\ IF CvapMatches(df.rows[i], loaded.cvap) = <<>>
                 THEN IsNA(df.rows[i].turnout_share)
                 ELSE /\ df.rows[i].turnout_share =
                            CappedTurnout(df.rows[i], CvapMatches(df.rows[i], loaded.cvap)[1])
                      /\ ~RLess(RInt(1), df.rows[i].turnout_share)

\* One row has more votes than citizens of voting age and is capped at 1, one
\* has fewer and keeps its ratio, one has no CVAP entry.
C25_Witness ==
    /\ script = "04_prepare_data" /\ pc = 3
    /\ \E i \in 1..Len(df.rows) :
          /\ CvapMatches(df.rows[i], loaded.cvap) # <<>>
          /\ df.rows[i].total_votes > CvapMatches(df.rows[i], loaded.cvap)[1].cvap
          /\ df.rows[i].turnout_share = RInt(1)
    /\ \E i \in 1..Len(df.rows) : df.rows[i].turnout_share = <<1, 2>>
    /\ \E i \in 1..Len(df.rows) : IsNA(df.rows[i].turnout_share)

\* The adoption file codes a California county as never adopting: no row, a
\* missing first year, or 9999 (which kwdwrd/2 turns into infinity).
NeverCoded(county) ==
    \/ AdoptionRecord(county) = <<>>
    \/ AdoptionRecord(county)[1].vca_first_year \in {NA, RInt(NeverAdopts)}

\* C24: in the extension treatment of every variant, a county treated in one
\* extension year is treated in every later one, and a county coded as never
\* adopting is untreated in every extension year.
C24_TreatmentMonotone ==
    (script \in {"04_prepare_data", "v3_03_collect", "v2_04_prepare"} /\ pc >= 1) =>
        /\ \A i, j \in 1..Len(df.rows) :
              (/\ df.rows[i].state = df.rows[j].state
               /\ df.rows[i].county = df.rows[j].county
               /\ df.rows[i].year < df.rows[j].year
               /\ df.rows[i].treat = 1) => df.rows[j].treat = 1
        /\ \A i \in 1..Len(df.rows) :
              (df.rows[i].state = "CA" /\ NeverCoded(df.rows[i].county)) => df.rows[i].treat = 0

\* kwdwrd/2: Alameda adopts in 2022 and goes from untreated to treated, Alpine
\* is coded 9999 and stays untreated.
C24_Witness ==
    /\ script = "v2_04_prepare" /\ pc = 1
    /\ loaded.vca = <<[county |-> "Alameda", vca_first_year |-> RInt(2022)],
                      [county |-> "Alpine", vca_first_year |-> RInt(NeverAdopts)]>>
    /\ Len(df.rows) = Cardinality(ExtCells)
    /\ df.rows[1].treat = 0 /\ df.rows[2].treat = 1 /\ df.rows[3].treat = 1
    /\ df.rows[4].treat_year = Infinity
    /\ \A i \in 4..6 : df.rows[i].county = "Alpine" /\ df.rows[i].treat = 0

\* The rows of a frame that are extension rows.
ExtensionRowsOf(rows) == {i \in 1..Len(rows) : \E y \in 1..Len(ExtYears) : rows[i].year = ExtYears[y]}

OriginalIds == {loaded.original.rows[i].state_year_id : i \in 1..Len(loaded.original.rows)}

\* C26: after assign_identifiers distinct extension (state, year) pairs have
\* distinct state_year_ids and equal pairs equal ids, every extension id is
\* greater than every original state_year_id, each county_id is the one the
\* original data gives the (state, county), and the number of extension rows
\* is unchanged - also in the combined data.
C26_IdentifiersAssigned ==
    (script = "v3_04_merge" /\ pc >= 1) =>
        /\ Cardinality(ExtensionRowsOf(df.rows)) = Len(loaded.extension.rows)
        /\ \A i, j \in ExtensionRowsOf(df.rows) :
              (df.rows[i].state_year_id = df.rows[j].state_year_id)
                  <=> (df.rows[i].state = df.rows[j].state /\ df.rows[i].year = df.rows[j].year)
        /\ \A i \in ExtensionRowsOf(df.rows) :
              /\ \A id \in OriginalIds : df.rows[i].state_year_id > id
              /\ \E k \in 1..Len(loaded.original.rows) :
                    /\ loaded.original.rows[k].state = df.rows[i].state
                    /\ loaded.original.rows[k].county = df.rows[i].county
                    /\ loaded.original.rows[k].county_id = df.rows[i].county_id

\* Three counties of two states: six (state, year) pairs, nine extension rows
\* with ids from the largest original id plus one on.
C26_Witness ==
    /\ script = "v3_04_merge" /\ pc = 1
    /\ Len(df.rows) = 9
    /\ Cardinality({df.rows[i].state_year_id : i \in 1..Len(df.rows)}) = 6
    /\ \E i \in 1..Len(df.rows) : df.rows[i].state_year_id = MaxOf(OriginalIds) + 1
    /\ \E i \in 1..Len(df.rows) : df.rows[i].state_year_id = MaxOf(OriginalIds) + 6

OfficeVars == {<<"gov", "dem_share_gov">>, <<"pres", "dem_share_pres">>, <<"sen", "dem_share_sen">>}

\* The rows of the stacked frame that come from office o of wide row w.
StackedFrom(w, o) ==
    {k \in 1..Len(df.rows) :
        /\ df.rows[k].office = o[1]
        /\ df.rows[k].county_id = w.county_id
        /\ df.rows[k].state_year = w.state_year}

PresentCells == {<<i, o>> \in (1..Len(loaded.rows)) \X OfficeVars : ~IsNA(loaded.rows[i][o[2]])}

\* C27: stacking the vote-share columns gives exactly one row for each
\* (input row, office) whose share is present and none for a missing one;
\* the row carries the input row's county_id, state-year and treat, and the
\* number of rows is the number of present office cells.
C27_OneRowPerPresentShare ==
    (script \in {"v4_05_reshape", "v4_02_reshape", "v2_02_melt"} /\ pc = 1) =>
        /\ Len(df.rows) = Cardinality(PresentCells)
        /\ \A i \in 1..Len(loaded.rows) : \A o \in OfficeVars :
              IF IsNA(loaded.rows[i][o[2]])
              THEN StackedFrom(loaded.rows[i], o) = {}
              ELSE /\ Cardinality(StackedFrom(loaded.rows[i], o)) = 1
                   /\ \A k \in StackedFrom(loaded.rows[i], o) :
                         /\ df.rows[k].dem_share = loaded.rows[i][o[2]]
                         /\ df.rows[k].treat = loaded.rows[i].treat

\* Four wide rows with five shares among them, one row without any, stacked
\* into five rows.
C27_Witness ==
    /\ script = "v4_05_reshape" /\ pc = 1
    /\ Len(loaded.rows) = 4
    /\ Cardinality(PresentCells) = 5
    /\ \E i \in 1..Len(loaded.rows) : \A o \in OfficeVars : IsNA(loaded.rows[i][o[2]])
    /\ \E i \in 1..Len(loaded.rows) : \A o \in OfficeVars : ~IsNA(loaded.rows[i][o[2]])
    /\ Len(df.rows) = 5
    /\ \E k \in 1..Len(df.rows) : df.rows[k].treat = 1

====
